---- MODULE Spec2Model ----
(***************************************************************************)
(* n8n-mcp-lite: the tool dispatcher and its mutation handlers, the        *)
(* preflight pipeline, the local version store, the approval store and     *)
(* the graph classification used by focus mode.                            *)
(*                                                                         *)
(* Values.  A JavaScript string that the validators inspect is a sequence  *)
(* of lexical tokens ("=", "{{", "}}", "?.", "${", or a run of other       *)
(* characters), so includes / startsWith / countOccurrences are computed   *)
(* on it.  An optional value (undefined, null) is the empty sequence and   *)
(* a present value v is <<v>>.  A JavaScript object is a function whose    *)
(* DOMAIN is its key set.                                                  *)
(***************************************************************************)
EXTENDS Integers, Sequences, FiniteSets, TLC

VARIABLES engine, store, approval, auditLog, now, last, ncalls, faulty, input, output

vars == <<engine, store, approval, auditLog, now, last, ncalls, faulty, input, output>>

\* ------------------------------------------------------------------------
\* Bounds of the model
\* ------------------------------------------------------------------------
MaxCalls == 3
MaxSaves == 22
MaxTicks == 3
MaxPending == 2
MaxNodes == 3
MaxEdges == 3

\* ------------------------------------------------------------------------
\* Program constants
\* ------------------------------------------------------------------------
DEFAULT_MAX_SNAPSHOTS == 20
TOKEN_TTL_MS == 600000

\* ------------------------------------------------------------------------
\* Generic helpers
\* ------------------------------------------------------------------------
Null == <<>>
Some(v) == <<v>>

RECURSIVE SeqFilter(_, _)
SeqFilter(s, keep) ==
  IF s = <<>> THEN <<>>
  ELSE IF Head(s) \in keep THEN <<Head(s)>> \o SeqFilter(Tail(s), keep)
       ELSE SeqFilter(Tail(s), keep)

Range(s) == {s[i] : i \in 1..Len(s)}

\* ------------------------------------------------------------------------
\* String values as token sequences
\* ------------------------------------------------------------------------
TokLen(tok) ==
  CASE tok = "=" -> 1
    [] tok = "{{" -> 2
    [] tok = "}}" -> 2
    [] tok = "?." -> 2
    [] tok = "${" -> 2
    [] tok = "hello" -> 5
    [] tok = "$json.name" -> 10
    [] tok = "sk-AAAAAAAAAAAAAAAAAAAAAAAAAAAAAA" -> 33
    [] OTHER -> 4

RECURSIVE StrLen(_)
StrLen(s) == IF s = <<>> THEN 0 ELSE TokLen(Head(s)) + StrLen(Tail(s))

Includes(s, tok) == \E i \in 1..Len(s) : s[i] = tok
StartsWith(s, tok) == Len(s) > 0 /\ s[1] = tok
countOccurrences(s, tok) == Cardinality({i \in 1..Len(s) : s[i] = tok})
IncludesPair(s, a, b) == \E i \in 1..(Len(s) - 1) : s[i] = a /\ s[i + 1] = b

\* tokens on which some SECRET_PATTERNS regular expression matches
SecretTokens == {"sk-AAAAAAAAAAAAAAAAAAAAAAAAAAAAAA"}
MatchesSecretPattern(s) == \E i \in 1..Len(s) : s[i] \in SecretTokens

TxtPlain == <<"hello">>
TxtExpr == <<"=", "{{", "$json.name", "}}">>
TxtNoPrefix == <<"{{", "$json.name", "}}">>
TxtSecret == <<"sk-AAAAAAAAAAAAAAAAAAAAAAAAAAAAAA">>
TxtEmpty == <<>>

\* the non-greedy matches of {{(.*?)}} from position i on
RECURSIVE extractExpressionContent(_, _)
extractExpressionContent(s, i) ==
  LET opens == {j \in i..Len(s) : s[j] = "{{"} IN
  IF opens = {} THEN <<>>
  ELSE LET o == CHOOSE j \in opens : \A k \in opens : j <= k
           closes == {j \in (o + 1)..Len(s) : s[j] = "}}"}
       IN IF closes = {} THEN <<>>
          ELSE LET c == CHOOSE j \in closes : \A k \in closes : j <= k
               IN <<SubSeq(s, o + 1, c - 1)>> \o extractExpressionContent(s, c + 1)

\* ------------------------------------------------------------------------
\* Expression validator
\* ------------------------------------------------------------------------
Finding(type, node) == [type |-> type, node |-> node]

NoFindings == [errors |-> <<>>, warnings |-> <<>>]

\* what one validator found, followed by what the rest of a walk found
Joined(found, rest) ==
  [errors |-> found.errors \o rest.errors, warnings |-> found.warnings \o rest.warnings]

RECURSIVE InnerFindings(_, _)
InnerFindings(inner, nodeName) ==
  IF inner = <<>> THEN NoFindings
  ELSE Joined([errors |-> IF Includes(Head(inner), "{{")
                          THEN <<Finding("syntax_error", nodeName)>> ELSE <<>>,
               warnings |-> IF Includes(Head(inner), "?.")
                            THEN <<Finding("expression_hint", nodeName)>> ELSE <<>>],
              InnerFindings(Tail(inner), nodeName))

validateExpression(value, nodeName) ==
  IF value = <<>> THEN NoFindings
  ELSE
  LET hasBrackets == Includes(value, "{{") /\ Includes(value, "}}")
      hasPrefix == StartsWith(value, "=")
      rule1 == IF hasBrackets /\ ~hasPrefix
               THEN <<Finding("invalid_expression", nodeName)>> ELSE <<>>
      rule2 == IF (hasBrackets \/ hasPrefix)
                  /\ countOccurrences(value, "{{") # countOccurrences(value, "}}")
               THEN <<Finding("syntax_error", nodeName)>> ELSE <<>>
      rule3 == IF (hasBrackets \/ hasPrefix) /\ IncludesPair(value, "{{", "}}")
               THEN <<Finding("syntax_error", nodeName)>> ELSE <<>>
      rule4 == IF Includes(value, "${") /\ ~Includes(value, "{{")
               THEN <<Finding("expression_hint", nodeName)>> ELSE <<>>
      inner == IF hasPrefix /\ hasBrackets THEN extractExpressionContent(value, 1) ELSE <<>>
  IN Joined([errors |-> rule1 \o rule2 \o rule3, warnings |-> rule4], InnerFindings(inner, nodeName))

\* parameter objects of the model have at most the keys of ParamKeys, in this order
ParamKeys == <<"text">>
ParamEntries(params) == SeqFilter(ParamKeys, DOMAIN params)

RECURSIVE WalkExpressions(_, _, _)
WalkExpressions(keys, params, nodeName) ==
  IF keys = <<>> THEN NoFindings
  ELSE Joined(validateExpression(params[Head(keys)], nodeName),
              WalkExpressions(Tail(keys), params, nodeName))

validateAllExpressions(params, nodeName) == WalkExpressions(ParamEntries(params), params, nodeName)

\* ------------------------------------------------------------------------
\* Security analyzer: credential exposure
\* ------------------------------------------------------------------------
RECURSIVE ScanSecrets(_, _, _)
ScanSecrets(keys, params, nodeName) ==
  IF keys = <<>> THEN <<>>
  ELSE LET obj == params[Head(keys)]
           here == IF StrLen(obj) > 8 /\ ~StartsWith(obj, "=") /\ MatchesSecretPattern(obj)
                   THEN <<Finding("security", nodeName)>> ELSE <<>>
       IN here \o ScanSecrets(Tail(keys), params, nodeName)

detectCredentialExposure(node) == ScanSecrets(ParamEntries(node.parameters), node.parameters, node.name)

\* ------------------------------------------------------------------------
\* Node knowledge index and config validator
\* ------------------------------------------------------------------------
TypeTrigger == "n8n-nodes-base.manualTrigger"
TypeText == "n8n-nodes-base.text"
TypeCustom == "custom.node"

\* the embedded node database: a trigger without properties and a node with
\* one required string property "text"; any other type is not in the index
NodeDbGet(type) ==
  IF type = TypeTrigger THEN Some([t |-> type, props |-> <<>>])
  ELSE IF type = TypeText THEN Some([t |-> type, props |-> <<[n |-> "text", req |-> TRUE]>>])
  ELSE Null

RECURSIVE RequiredFindings(_, _)
RequiredFindings(props, node) ==
  IF props = <<>> THEN <<>>
  ELSE LET prop == Head(props)
           missing == prop.n \notin DOMAIN node.parameters \/ node.parameters[prop.n] = <<>>
           here == IF prop.req /\ missing THEN <<Finding("missing_required", node.name)>> ELSE <<>>
       IN here \o RequiredFindings(Tail(props), node)

\* the model's schemas declare no option sets, no operations and only string
\* properties, and no model type is an HTTP, SQL or code node, so the later
\* steps of validateNodeConfig add nothing
validateNodeConfig(node) ==
  LET nodeSchema == NodeDbGet(node.type) IN
  IF nodeSchema = Null
  THEN [errors |-> <<>>, warnings |-> <<Finding("unknown_node_warning", node.name)>>]
  ELSE [errors |-> RequiredFindings(nodeSchema[1].props, node), warnings |-> <<>>]

\* ------------------------------------------------------------------------
\* Structural checks on the connection map
\* ------------------------------------------------------------------------
\* object keys are visited in these fixed orders
NameOrder == <<"A", "B", "C", "X">>
Names == Range(NameOrder)
OutputTypeOrder == <<"main", "ai_tool">>

SourceKeys(connections) == SeqFilter(NameOrder, DOMAIN connections)
TypeKeys(outputs) == SeqFilter(OutputTypeOrder, DOMAIN outputs)

RECURSIVE Flatten(_)
Flatten(ss) == IF ss = <<>> THEN <<>> ELSE Head(ss) \o Flatten(Tail(ss))

RECURSIVE TargetsOfTypes(_, _)
TargetsOfTypes(keys, outputs) ==
  IF keys = <<>> THEN <<>>
  ELSE Flatten(outputs[Head(keys)]) \o TargetsOfTypes(Tail(keys), outputs)

\* every target of one source, in visiting order
TargetsOf(connections, src) == TargetsOfTypes(TypeKeys(connections[src]), connections[src])

RECURSIVE TargetFindings(_, _, _)
TargetFindings(targets, sourceName, nodeNames) ==
  IF targets = <<>> THEN <<>>
  ELSE (IF Head(targets).node \notin nodeNames
        THEN <<Finding("invalid_connection", sourceName)>> ELSE <<>>)
       \o TargetFindings(Tail(targets), sourceName, nodeNames)

RECURSIVE ConnectionFindings(_, _, _)
ConnectionFindings(keys, connections, nodeNames) ==
  IF keys = <<>> THEN <<>>
  ELSE LET sourceName == Head(keys)
           here == IF sourceName \notin nodeNames
                   THEN <<Finding("invalid_connection", sourceName)>>
                   ELSE TargetFindings(TargetsOf(connections, sourceName), sourceName, nodeNames)
       IN here \o ConnectionFindings(Tail(keys), connections, nodeNames)

IsTriggerType(type) == type \in {TypeTrigger}

ConnectedNodes(connections) ==
  DOMAIN connections
    \cup {t.node : t \in UNION {Range(TargetsOf(connections, src)) : src \in DOMAIN connections}}

RECURSIVE OrphanFindings(_, _, _)
OrphanFindings(rest, nodes, connected) ==
  IF rest = <<>> THEN <<>>
  ELSE LET node == Head(rest)
           here == IF node.name \notin connected /\ ~node.disabled
                      /\ ~IsTriggerType(node.type) /\ Len(nodes) > 1
                   THEN <<Finding("best_practice", node.name)>> ELSE <<>>
       IN here \o OrphanFindings(Tail(rest), nodes, connected)

validateConnectionsSkipped(nodes, connections) == NoFindings

validateConnections(nodes, connections) ==
  LET nodeNames == {nodes[i].name : i \in 1..Len(nodes)} IN
  [errors |-> ConnectionFindings(SourceKeys(connections), connections, nodeNames),
   warnings |-> OrphanFindings(nodes, nodes, ConnectedNodes(connections))]

\* ------------------------------------------------------------------------
\* Preflight pipeline
\* ------------------------------------------------------------------------
RECURSIVE NodePhase(_)
NodePhase(nodes) ==
  IF nodes = <<>> THEN NoFindings
  ELSE IF Head(nodes).disabled THEN NodePhase(Tail(nodes))
  ELSE Joined(validateNodeConfig(Head(nodes)),
         Joined(validateAllExpressions(Head(nodes).parameters, Head(nodes).name),
           Joined([errors |-> <<>>, warnings |-> detectCredentialExposure(Head(nodes))],
                  NodePhase(Tail(nodes)))))

RECURSIVE DuplicateFindings(_, _, _)
DuplicateFindings(rest, nodes, seen) ==
  IF rest = <<>> THEN <<>>
  ELSE LET name == Head(rest).name
           count == Cardinality({i \in 1..Len(nodes) : nodes[i].name = name})
           here == IF name \notin seen /\ count > 1
                   THEN <<Finding("invalid_value", name)>> ELSE <<>>
       IN here \o DuplicateFindings(Tail(rest), nodes, seen \cup {name})

PassVerdictWarningsBlock(errors, warnings) == errors = <<>> /\ warnings = <<>>

PassVerdict(errors, warnings) == errors = <<>>

runPreflight(state, mutationType) ==
  LET Verdict(errors, warnings) ==
        [pass |-> PassVerdict(errors, warnings), errors |-> errors, warnings |-> warnings,
         mutationType |-> mutationType]
      Collected(found) == Verdict(found.errors, found.warnings)
  IN Collected(Joined(NodePhase(state.nodes),
               Joined(validateConnections(state.nodes, state.connections),
                      [errors |-> DuplicateFindings(state.nodes, state.nodes, {}),
                       warnings |-> <<>>])))

buildVirtualState(nodes, connections) == [nodes |-> nodes, connections |-> connections]

\* ------------------------------------------------------------------------
\* Objects and the raw connection map
\*   connections[source][outputType] is a sequence, by output index, of
\*   sequences of targets [node, type, index]
\* ------------------------------------------------------------------------
EmptyObj == [k \in {} |-> k]
ObjSet(obj, key, v) == [k \in DOMAIN obj \cup {key} |-> IF k = key THEN v ELSE obj[k]]
ObjDel(obj, key) == [k \in DOMAIN obj \ {key} |-> obj[k]]
OrElse(opt, default) == IF opt = Null THEN default ELSE opt[1]

\* the "while (length <= outputIdx) push([])" loop
PadSlots(arrays, outputIdx) ==
  IF Len(arrays) > outputIdx THEN arrays
  ELSE arrays \o [i \in 1..(outputIdx + 1 - Len(arrays)) |-> <<>>]

EnsureSlots(connections, from, outputType, outputIdx) ==
  LET c1 == IF from \in DOMAIN connections THEN connections ELSE ObjSet(connections, from, EmptyObj)
      o1 == IF outputType \in DOMAIN c1[from] THEN c1[from] ELSE ObjSet(c1[from], outputType, <<>>)
  IN ObjSet(c1, from, ObjSet(o1, outputType, PadSlots(o1[outputType], outputIdx)))

PushTarget(connections, from, outputType, outputIdx, target) ==
  LET c == EnsureSlots(connections, from, outputType, outputIdx)
      arrays == c[from][outputType]
  IN ObjSet(c, from, ObjSet(c[from], outputType,
       [arrays EXCEPT ![outputIdx + 1] = Append(@, target)]))

\* ------------------------------------------------------------------------
\* Lite <-> raw codec (the parts the handlers use)
\* ------------------------------------------------------------------------
ReservesAlways(tracked, inputIdx) == TRUE

\* an explicit inputIndex moves the tracker only when it is not below it
Reserves(tracked, inputIdx) == tracked <= inputIdx

restoreNodeType(simpleType) ==
  CASE simpleType = "manualTrigger" -> TypeTrigger
    [] simpleType = "text" -> TypeText
    [] OTHER -> simpleType

RECURSIVE ReconstructConnections(_, _, _)
ReconstructConnections(flow, connections, nextAutoInputIdx) ==
  IF flow = <<>> THEN connections
  ELSE LET conn == Head(flow)
           outputType == OrElse(conn.type, "main")
           outputIdx == OrElse(conn.outputIndex, 0)
           trackerKey == <<conn.to, outputType>>
           tracked == IF trackerKey \in DOMAIN nextAutoInputIdx THEN nextAutoInputIdx[trackerKey] ELSE 0
           inputIdx == IF conn.inputIndex # Null THEN conn.inputIndex[1] ELSE tracked
           tracker == IF conn.inputIndex # Null
                      THEN (IF Reserves(tracked, inputIdx)
                            THEN ObjSet(nextAutoInputIdx, trackerKey, inputIdx + 1)
                            ELSE nextAutoInputIdx)
                      ELSE ObjSet(nextAutoInputIdx, trackerKey, inputIdx + 1)
       IN ReconstructConnections(Tail(flow),
            PushTarget(connections, conn.from, outputType, outputIdx,
                       [node |-> conn.to, type |-> outputType, index |-> inputIdx]),
            tracker)

OriginalNode(originalRaw, name) ==
  IF originalRaw = Null THEN Null
  ELSE LET ns == originalRaw[1].nodes
           hits == {i \in 1..Len(ns) : ns[i].name = name}
       IN IF hits = {} THEN Null
          ELSE Some(ns[CHOOSE i \in hits : \A j \in hits : j <= i])

ReconstructNode(liteNode, originalRaw) ==
  LET original == OriginalNode(originalRaw, liteNode.name) IN
  [name |-> liteNode.name,
   type |-> restoreNodeType(liteNode.type),
   parameters |-> IF liteNode.params # Null THEN liteNode.params[1]
                  ELSE IF original # Null THEN original[1].parameters
                  ELSE EmptyObj,
   disabled |-> liteNode.disabled]

reconstructWorkflow(lite, originalRaw) ==
  [name |-> lite.name,
   nodes |-> [i \in 1..Len(lite.nodes) |-> ReconstructNode(lite.nodes[i], originalRaw)],
   connections |-> ReconstructConnections(lite.flow, EmptyObj, EmptyObj),
   settings |-> OrElse(lite.settings, "executionOrder:v1")]

\* ------------------------------------------------------------------------
\* Version store (.versioning/{workflowId}/_index.json and {id}.json)
\*   store.index[w]  the index file of workflow w, newest first
\*   store.files[w]  the data files of workflow w, by snapshot id
\*   store.nextId    the next identity randomUUID() hands out
\* ------------------------------------------------------------------------
WfIds == {"w1", "w2"}

EmptyStore == [index |-> [w \in WfIds |-> <<>>], files |-> [w \in WfIds |-> EmptyObj], nextId |-> 1]

readIndex(st, workflowId) == st.index[workflowId]

KeepOldest(snapshots, keepCount) == SubSeq(snapshots, Len(snapshots) - keepCount + 1, Len(snapshots))

KeepNewest(snapshots, keepCount) == SubSeq(snapshots, 1, keepCount)

pruneSnapshotsIndexOnly(st, workflowId, keepCount) ==
  [st EXCEPT !.index[workflowId] = IF Len(@) <= keepCount THEN @ ELSE KeepNewest(@, keepCount)]

pruneSnapshots(st, workflowId, keepCount) ==
  LET snapshots == readIndex(st, workflowId) IN
  IF Len(snapshots) <= keepCount THEN st
  ELSE LET kept == KeepNewest(snapshots, keepCount)
           keptIds == {kept[i].id : i \in 1..Len(kept)}
           toRemove == {snapshots[i].id : i \in 1..Len(snapshots)} \ keptIds
       IN [st EXCEPT !.index[workflowId] = kept,
                     !.files[workflowId] = [k \in DOMAIN @ \ toRemove |-> @[k]]]

\* returns the store after the save and the identity of the new snapshot
saveSnapshot(st, workflowId, raw, trigger) ==
  LET id == st.nextId
      snapshot == [id |-> id, workflowId |-> workflowId,
                   workflowName |-> IF raw.name # "" THEN raw.name ELSE "Workflow",
                   trigger |-> trigger]
      written == [st EXCEPT !.files[workflowId] = ObjSet(@, id, raw),
                            !.index[workflowId] = <<snapshot>> \o @,
                            !.nextId = id + 1]
  IN [store |-> pruneSnapshots(written, workflowId, DEFAULT_MAX_SNAPSHOTS), id |-> id]

\* limit = 0 stands for an absent limit
listSnapshots(st, workflowId, limit) ==
  LET snapshots == readIndex(st, workflowId) IN
  IF limit # 0 /\ limit < Len(snapshots) THEN SubSeq(snapshots, 1, limit) ELSE snapshots

\* a data file that JSON.parse rejects is a content with the field unparsable
Unparsable ==
  [id |-> "", name |-> "", nodes |-> <<>>, connections |-> EmptyObj, settings |-> "", unparsable |-> TRUE]

ParsesAlways(content) == TRUE

Parses(content) == "unparsable" \notin DOMAIN content

getSnapshot(st, workflowId, snapshotId) ==
  LET snapshots == readIndex(st, workflowId)
      hits == {i \in 1..Len(snapshots) : snapshots[i].id = snapshotId}
  IN IF hits = {} THEN Null
     ELSE IF snapshotId \notin DOMAIN st.files[workflowId] THEN Null
     ELSE IF ~Parses(st.files[workflowId][snapshotId]) THEN Null
     ELSE Some([meta |-> snapshots[CHOOSE i \in hits : \A j \in hits : i <= j],
                data |-> st.files[workflowId][snapshotId]])

ListedIds(st, workflowId) ==
  LET snapshots == listSnapshots(st, workflowId, 0) IN [i \in 1..Len(snapshots) |-> snapshots[i].id]

\* ------------------------------------------------------------------------
\* Approval store: pending tokens and the audit log
\*   a token "APPROVE_<ts36>_<rand>" is the pair <<ts, rand>>
\* ------------------------------------------------------------------------
Rands == {0, 1}

ExpiredEarly(op, at) == at - op.createdAt >= TOKEN_TTL_MS

Expired(op, at) == at - op.createdAt > TOKEN_TTL_MS

createPending(ap, tool, summary, at, rand) ==
  LET token == <<at, rand>>
      live == {k \in DOMAIN ap.pending : ~Expired(ap.pending[k], at)}
      purged == [k \in live |-> ap.pending[k]]
  IN [approval |-> [ap EXCEPT !.pending = ObjSet(purged, token,
                      [token |-> token, tool |-> tool, summary |-> summary, createdAt |-> at])],
      token |-> token]

ConsumeLookupAny(ap, token) ==
  IF token \in DOMAIN ap.pending THEN Some(ap.pending[token])
  ELSE Some([token |-> token, tool |-> "", summary |-> "", createdAt |-> 0])

ConsumeLookup(ap, token) == IF token \in DOMAIN ap.pending THEN Some(ap.pending[token]) ELSE Null

consumePending(ap, token, at) ==
  LET op == ConsumeLookup(ap, token) IN
  IF op = Null THEN [approval |-> ap, op |-> Null]
  ELSE IF Expired(op[1], at)
       THEN [approval |-> [ap EXCEPT !.pending = ObjDel(@, token)], op |-> Null]
       ELSE [approval |-> [ap EXCEPT !.pending = ObjDel(@, token)], op |-> op]

\* writeOk is the outcome of appendFileSync; a failure is swallowed
appendAuditLog(log, tool, workflowId, approved, result, writeOk) ==
  IF writeOk
  THEN Append(log, [tool |-> tool, workflowId |-> workflowId, approved |-> approved, result |-> result])
  ELSE log

\* ------------------------------------------------------------------------
\* The engine behind the API client
\*   engine[w] is Null when the engine has no workflow w, else Some(raw)
\*   a request for a workflow the engine does not have is answered with an
\*   error status, which the client turns into an exception (ok = FALSE)
\* ------------------------------------------------------------------------
Request(method, wf, body, listed) == [method |-> method, wf |-> wf, body |-> body, listed |-> listed]

apiGetWorkflow(eng, id) == [ok |-> eng[id] # Null, data |-> eng[id]]

apiUpdateWorkflow(eng, id, body) ==
  IF eng[id] = Null THEN [ok |-> FALSE, engine |-> eng]
  ELSE [ok |-> TRUE,
        engine |-> [eng EXCEPT ![id] =
           Some([k \in DOMAIN eng[id][1] |-> IF k \in DOMAIN body THEN body[k] ELSE eng[id][1][k]])]]

apiCreateWorkflow(eng, body) ==
  LET free == {w \in WfIds : eng[w] = Null} IN
  IF free = {} THEN [ok |-> FALSE, engine |-> eng, id |-> ""]
  ELSE LET id == CHOOSE w \in free : TRUE
       IN [ok |-> TRUE, id |-> id,
           engine |-> [eng EXCEPT ![id] = Some([id |-> id, name |-> body.name, nodes |-> body.nodes,
                         connections |-> body.connections, settings |-> body.settings])]]

apiDeleteWorkflow(eng, id) ==
  IF eng[id] = Null THEN [ok |-> FALSE, engine |-> eng]
  ELSE [ok |-> TRUE, engine |-> [eng EXCEPT ![id] = Null]]

\* ------------------------------------------------------------------------
\* Tool results and the record of one call
\*   requests  the HTTP requests the call sent, in order; "listed" is what
\*             listSnapshots returned for the workflow when the request left
\*   saved     the identity of the snapshot the call saved, if any
\* ------------------------------------------------------------------------
Args(args, key) == IF key \in DOMAIN args THEN Some(args[key]) ELSE Null

ResultOk(text) == [kind |-> "ok", text |-> text, errors |-> <<>>, warnings |-> <<>>, operations |-> <<>>]
ResultErr(text) == [kind |-> "error", text |-> text, errors |-> <<>>, warnings |-> <<>>, operations |-> <<>>]
ResultBlocked(preflight, operations) ==
  [kind |-> "blocked", text |-> "blocked", errors |-> preflight.errors,
   warnings |-> preflight.warnings, operations |-> operations]
ResultOkWith(text, preflight, operations) ==
  [kind |-> "ok", text |-> text, errors |-> <<>>, warnings |-> preflight.warnings, operations |-> operations]

Outcome(eng, st, result, preflight, requests, saved) ==
  [engine |-> eng, store |-> st, result |-> result, preflight |-> preflight,
   requests |-> requests, saved |-> saved, snapshotFailed |-> FALSE]

\* the outcome of a call in which saveSnapshot threw
SnapshotThrew(out) == [out EXCEPT !.snapshotFailed = TRUE]

\* ------------------------------------------------------------------------
\* create_workflow
\* ------------------------------------------------------------------------
LiteOfArgs(args, name, nodes, flow) ==
  [name |-> name, nodes |-> nodes, flow |-> flow, settings |-> Args(args, "settings")]

SendDespiteBlock(preflight) == TRUE

MaySend(preflight) == preflight.pass

createWorkflow(eng, st, args) ==
  LET name == OrElse(Args(args, "name"), "")
      liteNodes == OrElse(Args(args, "nodes"), <<>>)
      liteFlow == OrElse(Args(args, "flow"), <<>>)
      Posted(preflight, created, requests) ==
        IF ~created.ok
        THEN Outcome(eng, st, ResultErr("n8n API error"), Some(preflight), requests, Null)
        ELSE Outcome(created.engine, st, ResultOkWith("Workflow created successfully", preflight, <<>>),
                     Some(preflight), requests, Null)
      Send(reconstructed, preflight, created) ==
        Posted(preflight, created, <<Request("POST", created.id, reconstructed, <<>>)>>)
      Checked(reconstructed, preflight) ==
        IF ~MaySend(preflight)
        THEN Outcome(eng, st, ResultBlocked(preflight, <<>>), Some(preflight), <<>>, Null)
        ELSE Send(reconstructed, preflight, apiCreateWorkflow(eng, reconstructed))
      Reconstructed(reconstructed) ==
        Checked(reconstructed,
                runPreflight(buildVirtualState(reconstructed.nodes, reconstructed.connections),
                             "create_workflow"))
  IN IF name = "" THEN Outcome(eng, st, ResultErr("Missing workflow name"), Null, <<>>, Null)
     ELSE IF Len(liteNodes) = 0
     THEN Outcome(eng, st, ResultErr("At least one node is required"), Null, <<>>, Null)
     ELSE Reconstructed(reconstructWorkflow(LiteOfArgs(args, name, liteNodes, liteFlow), Null))

\* ------------------------------------------------------------------------
\* update_workflow
\*   snapshotOk is the outcome of the file writes of saveSnapshot
\* ------------------------------------------------------------------------
updateWorkflow(eng, st, args, snapshotOk) ==
  LET id == OrElse(Args(args, "id"), "")
      named == IF OrElse(Args(args, "name"), "") # ""
               THEN ObjSet(EmptyObj, "name", args.name) ELSE EmptyObj
      Put(st1, saved, ran, put, requests) ==
        IF ~put.ok THEN Outcome(eng, st1, ResultErr("n8n API error"), ran, requests, saved)
        ELSE Outcome(put.engine, st1, ResultOk("Workflow updated successfully"), ran, requests, saved)
      Send(get, st1, saved, ran, update) ==
        Put(st1, saved, ran, apiUpdateWorkflow(eng, id, update),
            get \o <<Request("PUT", id, update, ListedIds(st1, id))>>)
      Checked(get, st1, saved, reconstructed, preflight) ==
        IF ~MaySend(preflight)
        THEN Outcome(eng, st1, ResultBlocked(preflight, <<>>), Some(preflight), get, saved)
        ELSE Send(get, st1, saved, Some(preflight),
                  ObjSet(ObjSet(ObjSet(named, "nodes", reconstructed.nodes),
                         "connections", reconstructed.connections), "settings", reconstructed.settings))
      Reconstructed(get, st1, saved, reconstructed) ==
        Checked(get, st1, saved, reconstructed,
                runPreflight(buildVirtualState(reconstructed.nodes, reconstructed.connections),
                             "update_workflow"))
      Snapshotted(original, get, snap) ==
        IF "nodes" \in DOMAIN args /\ "flow" \in DOMAIN args
        THEN Reconstructed(get, snap.store, Some(snap.id),
               reconstructWorkflow(
                 LiteOfArgs(args, OrElse(Args(args, "name"), original.data[1].name), args.nodes, args.flow),
                 original.data))
        ELSE IF "settings" \in DOMAIN args
        THEN Send(get, snap.store, Some(snap.id), Null, ObjSet(named, "settings", args.settings))
        ELSE Send(get, snap.store, Some(snap.id), Null, named)
      Fetched(original, get) ==
        IF ~original.ok THEN Outcome(eng, st, ResultErr("n8n API error"), Null, get, Null)
        ELSE IF ~snapshotOk
        THEN SnapshotThrew(Outcome(eng, st, ResultErr("snapshot write failed"), Null, get, Null))
        ELSE Snapshotted(original, get, saveSnapshot(st, id, original.data[1], "pre_update_workflow"))
  IN IF id = "" THEN Outcome(eng, st, ResultErr("Missing workflow ID"), Null, <<>>, Null)
     ELSE Fetched(apiGetWorkflow(eng, id), <<Request("GET", id, EmptyObj, ListedIds(st, id))>>)

\* ------------------------------------------------------------------------
\* update_nodes: the typed operations
\*   the working state is [nodes, connections, results, error]; once an
\*   operation throws, error holds the message and the rest is skipped
\* ------------------------------------------------------------------------
FindNode(nodes, name) ==
  LET hits == {i \in 1..Len(nodes) : nodes[i].name = name} IN
  IF hits = {} THEN 0 ELSE CHOOSE i \in hits : \A j \in hits : i <= j

RemoveAt(s, idx) == SubSeq(s, 1, idx - 1) \o SubSeq(s, idx + 1, Len(s))

RECURSIVE FilterTargets(_, _)
FilterTargets(targets, name) ==
  IF targets = <<>> THEN <<>>
  ELSE (IF Head(targets).node # name THEN <<Head(targets)>> ELSE <<>>)
       \o FilterTargets(Tail(targets), name)

FilterOutputsKept(outputs, name) == outputs

\* drops every target named name from every output slot of one source
FilterOutputs(outputs, name) ==
  [t \in DOMAIN outputs |-> [i \in 1..Len(outputs[t]) |-> FilterTargets(outputs[t][i], name)]]

RenameOutputs(outputs, name, newName) ==
  [t \in DOMAIN outputs |->
     [i \in 1..Len(outputs[t]) |->
        [j \in 1..Len(outputs[t][i]) |->
           IF outputs[t][i][j].node = name
           THEN [outputs[t][i][j] EXCEPT !.node = newName] ELSE outputs[t][i][j]]]]

ThrownIgnored(w, message) == w
Thrown(w, message) == [w EXCEPT !.error = Some(message)]
Done(w, nodes, connections, note) ==
  [w EXCEPT !.nodes = nodes, !.connections = connections, !.results = Append(@, note)]

OpAddNode(w, op) ==
  LET nodeSpec == op.node IN
  IF nodeSpec.name = "" \/ nodeSpec.type = "" THEN Thrown(w, "addNode requires node.name and node.type")
  ELSE IF FindNode(w.nodes, nodeSpec.name) # 0 THEN Thrown(w, "already exists")
  ELSE Done(w, Append(w.nodes, [name |-> nodeSpec.name, type |-> restoreNodeType(nodeSpec.type),
                                parameters |-> OrElse(nodeSpec.params, EmptyObj),
                                disabled |-> nodeSpec.disabled]),
            w.connections, "Added node")

OpRemoveNode(w, op) ==
  LET idx == FindNode(w.nodes, op.name)
      c1 == ObjDel(w.connections, op.name)
  IN IF idx = 0 THEN Thrown(w, "not found")
     ELSE Done(w, RemoveAt(w.nodes, idx),
               [src \in DOMAIN c1 |-> FilterOutputs(c1[src], op.name)], "Removed node")

\* "params.<key>" and "<key>" both set parameters[<key>]
ParamKeyOf(key) == IF key = "params.text" \/ key = "parameters.text" THEN "text" ELSE key

RECURSIVE ApplyUpdates(_, _, _)
ApplyUpdates(keys, updates, parameters) ==
  IF keys = <<>> THEN parameters
  ELSE ApplyUpdates(Tail(keys), updates, ObjSet(parameters, ParamKeyOf(Head(keys)), updates[Head(keys)]))

UpdateKeyOrder == <<"text", "params.text", "parameters.text">>

OpUpdateNode(w, op) ==
  LET idx == FindNode(w.nodes, op.name) IN
  IF idx = 0 THEN Thrown(w, "not found")
  ELSE Done(w, [w.nodes EXCEPT ![idx].parameters =
                  ApplyUpdates(SeqFilter(UpdateKeyOrder, DOMAIN op.params), op.params, @)],
            w.connections, "Updated node")

OpAddConnection(w, op) ==
  LET outputType == OrElse(op.type, "main")
      outputIdx == OrElse(op.outputIndex, 0)
      inputIdx == OrElse(op.inputIndex, 0)
      c == EnsureSlots(w.connections, op.from, outputType, outputIdx)
      slot == c[op.from][outputType][outputIdx + 1]
      existing == \E j \in 1..Len(slot) : slot[j].node = op.to
  IN Done(w, w.nodes,
          IF existing THEN c
          ELSE PushTarget(c, op.from, outputType, outputIdx,
                          [node |-> op.to, type |-> outputType, index |-> inputIdx]),
          "Connected")

OpRemoveConnection(w, op) ==
  Done(w, w.nodes,
       IF op.from \in DOMAIN w.connections
       THEN ObjSet(w.connections, op.from, FilterOutputs(w.connections[op.from], op.to))
       ELSE w.connections,
       "Disconnected")

OpSetDisabled(w, op, disabled) ==
  LET idx == FindNode(w.nodes, op.name) IN
  IF idx = 0 THEN Thrown(w, "not found")
  ELSE Done(w, [w.nodes EXCEPT ![idx].disabled = disabled], w.connections,
            IF disabled THEN "Disabled" ELSE "Enabled")

OpRename(w, op) ==
  LET idx == FindNode(w.nodes, op.name)
      c1 == IF op.name \in DOMAIN w.connections
            THEN ObjDel(ObjSet(w.connections, op.newName, w.connections[op.name]), op.name)
            ELSE w.connections
  IN IF op.newName = "" THEN Thrown(w, "rename requires newName")
     ELSE IF idx = 0 THEN Thrown(w, "not found")
     ELSE IF FindNode(w.nodes, op.newName) # 0 THEN Thrown(w, "already exists")
     ELSE Done(w, [w.nodes EXCEPT ![idx].name = op.newName],
               [src \in DOMAIN c1 |-> RenameOutputs(c1[src], op.name, op.newName)], "Renamed")

OpUnknownThrown(w, op) == Thrown(w, "Unknown operation")

\* the default case of the switch
OpUnknown(w, op) == [w EXCEPT !.results = Append(@, "Unknown operation")]

ApplyOperation(w, op) ==
  CASE op.op = "addNode" -> OpAddNode(w, op)
    [] op.op = "removeNode" -> OpRemoveNode(w, op)
    [] op.op = "updateNode" -> OpUpdateNode(w, op)
    [] op.op = "addConnection" -> OpAddConnection(w, op)
    [] op.op = "removeConnection" -> OpRemoveConnection(w, op)
    [] op.op = "enable" -> OpSetDisabled(w, op, FALSE)
    [] op.op = "disable" -> OpSetDisabled(w, op, TRUE)
    [] op.op = "rename" -> OpRename(w, op)
    [] OTHER -> OpUnknown(w, op)

RECURSIVE ApplyOperations(_, _)
ApplyOperations(w, operations) ==
  IF operations = <<>> \/ w.error # Null THEN w
  ELSE ApplyOperations(ApplyOperation(w, Head(operations)), Tail(operations))

\* ------------------------------------------------------------------------
\* update_nodes
\* ------------------------------------------------------------------------
updateNodes(eng, st, args, snapshotOk) ==
  LET id == OrElse(Args(args, "id"), "")
      operations == OrElse(Args(args, "operations"), <<>>)
      Put(st1, saved, w, preflight, put, requests) ==
        IF ~put.ok THEN Outcome(eng, st1, ResultErr("n8n API error"), Some(preflight), requests, saved)
        ELSE Outcome(put.engine, st1, ResultOkWith("Operations applied successfully", preflight, w.results),
                     Some(preflight), requests, saved)
      Send(get, st1, saved, w, preflight, payload) ==
        Put(st1, saved, w, preflight, apiUpdateWorkflow(eng, id, payload),
            get \o <<Request("PUT", id, payload, ListedIds(st1, id))>>)
      Payload(raw, base) ==
        IF raw.data[1].settings # "" THEN ObjSet(base, "settings", raw.data[1].settings) ELSE base
      Checked(raw, get, st1, saved, w, preflight) ==
        IF ~MaySend(preflight)
        THEN Outcome(eng, st1, ResultBlocked(preflight, w.results), Some(preflight), get, saved)
        ELSE Send(get, st1, saved, w, preflight,
                  Payload(raw, ObjSet(ObjSet(ObjSet(EmptyObj, "name", raw.data[1].name),
                                                "nodes", w.nodes), "connections", w.connections)))
      Applied(raw, get, st1, saved, w) ==
        IF w.error # Null THEN Outcome(eng, st1, ResultErr(w.error[1]), Null, get, saved)
        ELSE Checked(raw, get, st1, saved, w,
                     runPreflight(buildVirtualState(w.nodes, w.connections), "update_nodes"))
      Snapshotted(raw, get, snap) ==
        Applied(raw, get, snap.store, Some(snap.id),
                ApplyOperations([nodes |-> raw.data[1].nodes, connections |-> raw.data[1].connections,
                                 results |-> <<>>, error |-> Null], operations))
      Fetched(raw, get) ==
        IF ~raw.ok THEN Outcome(eng, st, ResultErr("n8n API error"), Null, get, Null)
        ELSE IF ~snapshotOk
        THEN SnapshotThrew(Outcome(eng, st, ResultErr("snapshot write failed"), Null, get, Null))
        ELSE Snapshotted(raw, get, saveSnapshot(st, id, raw.data[1], "pre_update_nodes"))
  IN IF id = "" THEN Outcome(eng, st, ResultErr("Missing workflow ID"), Null, <<>>, Null)
     ELSE IF Len(operations) = 0 THEN Outcome(eng, st, ResultErr("No operations provided"), Null, <<>>, Null)
     ELSE Fetched(apiGetWorkflow(eng, id), <<Request("GET", id, EmptyObj, ListedIds(st, id))>>)

\* ------------------------------------------------------------------------
\* delete_workflow
\* ------------------------------------------------------------------------
ConfirmedIfPresent(args) == Args(args, "confirm") # Null
Confirmed(args) == Args(args, "confirm") = Some(TRUE)

deleteWorkflow(eng, st, args, snapshotOk) ==
  LET id == OrElse(Args(args, "id"), "")
      Deleted(st1, saved, del, requests) ==
        IF ~del.ok THEN Outcome(eng, st1, ResultErr("n8n API error"), Null, requests, saved)
        ELSE Outcome(del.engine, st1, ResultOk("Workflow deleted permanently"), Null, requests, saved)
      Send(get, st1, saved) ==
        Deleted(st1, saved, apiDeleteWorkflow(eng, id),
                get \o <<Request("DELETE", id, EmptyObj, ListedIds(st1, id))>>)
      Snapshotted(get, snap) == Send(get, snap.store, Some(snap.id))
      Fetched(raw, get) ==
        IF ~raw.ok THEN Send(get, st, Null)
        ELSE IF ~snapshotOk THEN SnapshotThrew(Send(get, st, Null))
        ELSE Snapshotted(get, saveSnapshot(st, id, raw.data[1], "pre_delete"))
  IN IF id = "" THEN Outcome(eng, st, ResultErr("Missing workflow ID"), Null, <<>>, Null)
     ELSE IF ~Confirmed(args)
     THEN Outcome(eng, st, ResultErr("Set confirm: true to delete"), Null, <<>>, Null)
     ELSE Fetched(apiGetWorkflow(eng, id), <<Request("GET", id, EmptyObj, ListedIds(st, id))>>)

\* ------------------------------------------------------------------------
\* rollback_workflow
\* ------------------------------------------------------------------------
RestorePayloadNameOnly(data) == ObjSet(EmptyObj, "name", data.name)

\* the update payload built from the stored workflow
RestorePayload(data) ==
  LET base == ObjSet(ObjSet(ObjSet(EmptyObj, "name", data.name), "nodes", data.nodes),
                     "connections", data.connections)
  IN IF data.settings # "" THEN ObjSet(base, "settings", data.settings) ELSE base

rollbackWorkflow(eng, st, args, snapshotOk) ==
  LET workflowId == OrElse(Args(args, "workflowId"), "")
      snapshotId == OrElse(Args(args, "snapshotId"), 0)
      Put(st1, saved, put, requests) ==
        IF ~put.ok THEN Outcome(eng, st1, ResultErr("n8n API error"), Null, requests, saved)
        ELSE Outcome(put.engine, st1, ResultOk("Workflow restored successfully"), Null, requests, saved)
      Send(get, st1, saved, updatePayload) ==
        Put(st1, saved, apiUpdateWorkflow(eng, workflowId, updatePayload),
            get \o <<Request("PUT", workflowId, updatePayload, ListedIds(st1, workflowId))>>)
      Snapshotted(snapshot, get, snap) ==
        Send(get, snap.store, Some(snap.id), RestorePayload(snapshot[1].data))
      Fetched(snapshot, currentRaw, get) ==
        IF ~currentRaw.ok THEN Send(get, st, Null, RestorePayload(snapshot[1].data))
        ELSE IF ~snapshotOk THEN SnapshotThrew(Send(get, st, Null, RestorePayload(snapshot[1].data)))
        ELSE Snapshotted(snapshot, get, saveSnapshot(st, workflowId, currentRaw.data[1], "manual"))
      Found(snapshot) ==
        IF snapshot = Null
        THEN Outcome(eng, st, ResultErr("Snapshot not found") @@ [names |-> <<snapshotId, workflowId>>],
                     Null, <<>>, Null)
        ELSE Fetched(snapshot, apiGetWorkflow(eng, workflowId),
                     <<Request("GET", workflowId, EmptyObj, ListedIds(st, workflowId))>>)
  IN IF workflowId = "" THEN Outcome(eng, st, ResultErr("Missing workflowId"), Null, <<>>, Null)
     ELSE IF snapshotId = 0 THEN Outcome(eng, st, ResultErr("Missing snapshotId"), Null, <<>>, Null)
     ELSE Found(getSnapshot(st, workflowId, snapshotId))

\* ------------------------------------------------------------------------
\* The dispatcher
\*   the approval gate in front of the four mutating tools: a first call
\*   without "approve" records a pending token and is audited as not
\*   approved; a call whose token consumePending accepts runs the handler
\*   and is audited as approved; any other token is rejected
\* ------------------------------------------------------------------------
MutatingTools == {"create_workflow", "update_workflow", "update_nodes", "delete_workflow"}

\* a call is recorded with the names of the arguments it was given
WorkflowIdOf(args) == OrElse(Args(args, "id"), OrElse(Args(args, "workflowId"), ""))

CallRecord(tool, args, out, token) ==
  [tool |-> tool, argKeys |-> DOMAIN args, workflowId |-> WorkflowIdOf(args),
   snapshotId |-> OrElse(Args(args, "snapshotId"), 0), result |-> out.result,
   preflight |-> out.preflight, requests |-> out.requests, saved |-> out.saved,
   snapshotFailed |-> out.snapshotFailed, token |-> token]

\* handled is the outcome of the handler the switch selects for the tool
Executed(tool, args, ap, auditOk, handled) ==
  \E out \in {handled} :
  /\ engine' = out.engine
  /\ store' = out.store
  /\ approval' = ap
  /\ auditLog' = IF tool \in MutatingTools
                 THEN appendAuditLog(auditLog, tool, WorkflowIdOf(args), TRUE, out.result.kind, auditOk)
                 ELSE auditLog
  /\ last' = CallRecord(tool, args, out, Null)

Handle(tool, args, rand, auditOk, handled) ==
  /\ ncalls' = ncalls + 1
  /\ UNCHANGED <<now, faulty, input, output>>
  /\ IF tool \in MutatingTools /\ approval.enabled
     THEN IF "approve" \notin DOMAIN args
          THEN LET created == createPending(approval, tool, tool, now, rand) IN
               /\ approval' = created.approval
               /\ auditLog' = appendAuditLog(auditLog, tool, WorkflowIdOf(args), FALSE, "pending", auditOk)
               /\ last' = CallRecord(tool, args,
                             Outcome(engine, store, [ResultOk("pending") EXCEPT !.kind = "pending"], Null, <<>>, Null),
                             Some(created.token))
               /\ UNCHANGED <<engine, store>>
          ELSE LET consumed == consumePending(approval, args.approve, now) IN
               IF consumed.op = Null
               THEN /\ approval' = consumed.approval
                    /\ last' = CallRecord(tool, args,
                                  Outcome(engine, store, ResultErr("Invalid or expired approve token"), Null, <<>>, Null),
                                  Null)
                    /\ UNCHANGED <<engine, store, auditLog>>
               ELSE Executed(tool, args, consumed.approval, auditOk, handled)
     ELSE Executed(tool, args, approval, auditOk, handled)

\* ------------------------------------------------------------------------
\* Inputs of the tool calls
\* ------------------------------------------------------------------------
LiteTrigger == [name |-> "A", type |-> "manualTrigger", params |-> Null, disabled |-> FALSE]
LiteText(name, text) == [name |-> name, type |-> "text", params |-> Some([text |-> text]), disabled |-> FALSE]
LiteConn(from, to) == [from |-> from, to |-> to, type |-> Null, outputIndex |-> Null, inputIndex |-> Null]

ArgNodeLists ==
  { <<LiteTrigger, LiteText("B", TxtPlain)>>,
    <<LiteTrigger, LiteText("B", TxtSecret)>>,
    <<LiteTrigger, LiteText("B", TxtNoPrefix)>> }

RawNode(name, type, text) ==
  [name |-> name, type |-> type, parameters |-> [text |-> text], disabled |-> FALSE]

InitialWorkflow ==
  [id |-> "w1", name |-> "W1",
   nodes |-> <<[name |-> "A", type |-> TypeTrigger, parameters |-> EmptyObj, disabled |-> FALSE],
               RawNode("B", TypeText, TxtExpr)>>,
   connections |-> ReconstructConnections(<<LiteConn("A", "B")>>, EmptyObj, EmptyObj),
   settings |-> ""]

\* the approve argument: absent, a pending token, or a token nobody issued
WithApprove(argSet) ==
  IF approval.enabled
  THEN argSet \cup {ObjSet(a, "approve", t) : a \in argSet, t \in DOMAIN approval.pending \cup {<<0, 9>>}}
  ELSE argSet

FsOutcomes == IF faulty THEN BOOLEAN ELSE {TRUE}

\* the random tail matters only to a call that creates a token
RandsFor(args) == IF approval.enabled /\ "approve" \notin DOMAIN args THEN Rands ELSE {0}

CreateArgs ==
  {[name |-> "W", nodes |-> ns, flow |-> <<LiteConn("A", "B")>>] : ns \in ArgNodeLists}
    \cup {[name |-> "W", nodes |-> <<LiteTrigger>>, flow |-> <<LiteConn("A", "X")>>],
          [name |-> "W", nodes |-> <<>>]}

\* the calls address the workflow the engine starts with
TargetIds == {"w1"}

UpdateWorkflowArgs ==
  UNION {
    { [id |-> w, name |-> "Renamed"],
      [id |-> w, settings |-> "custom"],
      [id |-> w, nodes |-> <<LiteTrigger, LiteText("B", TxtNoPrefix)>>] }
    \cup {[id |-> w, nodes |-> ns, flow |-> <<LiteConn("A", "B")>>] : ns \in ArgNodeLists}
    : w \in TargetIds}

OperationLists ==
  { <<[op |-> "updateNode", name |-> "B", params |-> [text |-> TxtSecret]]>>,
    <<[op |-> "updateNode", name |-> "B", params |-> [text |-> TxtNoPrefix]]>>,
    <<[op |-> "removeNode", name |-> "B"]>>,
    <<[op |-> "addNode", node |-> [name |-> "C", type |-> "text", params |-> Some([text |-> TxtPlain]),
                                   disabled |-> FALSE]],
      [op |-> "addConnection", from |-> "B", to |-> "C", type |-> Null, outputIndex |-> Null,
       inputIndex |-> Null]>>,
    <<[op |-> "addNode", node |-> [name |-> "B", type |-> "text", params |-> Null, disabled |-> FALSE]]>>,
    <<[op |-> "addConnection", from |-> "A", to |-> "X", type |-> Null, outputIndex |-> Some(1),
       inputIndex |-> Null]>>,
    <<[op |-> "removeConnection", from |-> "A", to |-> "B"], [op |-> "disable", name |-> "B"]>>,
    <<[op |-> "rename", name |-> "B", newName |-> "C"], [op |-> "enable", name |-> "C"]>>,
    <<[op |-> "merge", name |-> "B"]>> }

UpdateNodesArgs == {[id |-> w, operations |-> ops] : w \in TargetIds, ops \in OperationLists}

DeleteArgs ==
  {[id |-> w, confirm |-> c] : w \in TargetIds, c \in BOOLEAN} \cup {[id |-> w] : w \in TargetIds}

RollbackArgs == {[workflowId |-> w, snapshotId |-> i] : w \in TargetIds, i \in 1..store.nextId}

\* ------------------------------------------------------------------------
\* Actions: one per tool call, and the passing of time
\* ------------------------------------------------------------------------
CreateWorkflow ==
  /\ ncalls < MaxCalls
  /\ \E args \in WithApprove(CreateArgs), auditOk \in FsOutcomes : \E rand \in RandsFor(args) :
       Handle("create_workflow", args, rand, auditOk, createWorkflow(engine, store, args))

UpdateWorkflow ==
  /\ ncalls < MaxCalls
  /\ \E args \in WithApprove(UpdateWorkflowArgs), snapshotOk \in FsOutcomes, auditOk \in FsOutcomes :
       \E rand \in RandsFor(args) :
         Handle("update_workflow", args, rand, auditOk, updateWorkflow(engine, store, args, snapshotOk))

UpdateNodes ==
  /\ ncalls < MaxCalls
  /\ \E args \in WithApprove(UpdateNodesArgs), snapshotOk \in FsOutcomes, auditOk \in FsOutcomes :
       \E rand \in RandsFor(args) :
         Handle("update_nodes", args, rand, auditOk, updateNodes(engine, store, args, snapshotOk))

DeleteWorkflow ==
  /\ ncalls < MaxCalls
  /\ \E args \in WithApprove(DeleteArgs), snapshotOk \in FsOutcomes, auditOk \in FsOutcomes :
       \E rand \in RandsFor(args) :
         Handle("delete_workflow", args, rand, auditOk, deleteWorkflow(engine, store, args, snapshotOk))

RollbackWorkflow ==
  /\ ncalls < MaxCalls
  /\ \E args \in RollbackArgs, snapshotOk \in FsOutcomes :
       Handle("rollback_workflow", args, 0, TRUE, rollbackWorkflow(engine, store, args, snapshotOk))

TickSteps == {TOKEN_TTL_MS \div 2, TOKEN_TTL_MS \div 2 + 1}
MaxTime == MaxTicks * (TOKEN_TTL_MS \div 2 + 1)

Tick ==
  /\ \E d \in TickSteps : now + d <= MaxTime /\ now' = now + d
  /\ UNCHANGED <<engine, store, approval, auditLog, last, ncalls, faulty>>

NoCall ==
  [tool |-> "", argKeys |-> {}, workflowId |-> "", snapshotId |-> 0,
   result |-> [ResultOk("") EXCEPT !.kind = "none"],
   preflight |-> Null, requests |-> <<>>, saved |-> Null, snapshotFailed |-> FALSE, token |-> Null]

InitCommon ==
  /\ engine = [w \in WfIds |-> IF w = "w1" THEN Some(InitialWorkflow) ELSE Null]
  /\ store = EmptyStore
  /\ approval \in {[enabled |-> e, pending |-> EmptyObj] : e \in BOOLEAN}
  /\ auditLog = <<>>
  /\ now = 0
  /\ last = NoCall
  /\ ncalls = 0
  /\ input = Null
  /\ output = Null

Init == InitCommon /\ faulty = FALSE

InitFaulty == InitCommon /\ faulty = TRUE

Next == CreateWorkflow \/ UpdateWorkflow \/ UpdateNodes \/ DeleteWorkflow \/ RollbackWorkflow

Spec == Init /\ [][Next]_vars

SpecFaulty == InitFaulty /\ [][Next]_vars

\* ------------------------------------------------------------------------
\* The version store on its own: saves and listings of two workflows
\*   input[w] is the history of the identities saveSnapshot returned for w
\* ------------------------------------------------------------------------
MaxOtherSaves == 2
ListLimits == {0, 1, DEFAULT_MAX_SNAPSHOTS}

SaveOp ==
  /\ ncalls < MaxSaves
  /\ \E w \in WfIds :
       /\ w = "w2" => Len(input[w]) < MaxOtherSaves
       /\ \E snap \in {saveSnapshot(store, w, [InitialWorkflow EXCEPT !.id = w], "manual")} :
            /\ store' = snap.store
            /\ input' = [input EXCEPT ![w] = Append(@, snap.id)]
  /\ ncalls' = ncalls + 1
  /\ output' = Null
  /\ UNCHANGED <<engine, approval, auditLog, now, last, faulty>>

ListOp ==
  /\ \E w \in WfIds, limit \in ListLimits :
       output' = Some([workflowId |-> w, limit |-> limit, snapshots |-> listSnapshots(store, w, limit)])
  /\ UNCHANGED <<engine, store, approval, auditLog, now, last, ncalls, faulty, input>>

InitStore ==
  /\ engine = [w \in WfIds |-> Null]
  /\ store = EmptyStore
  /\ approval = [enabled |-> FALSE, pending |-> EmptyObj]
  /\ auditLog = <<>>
  /\ now = 0
  /\ last = NoCall
  /\ ncalls = 0
  /\ faulty = FALSE
  /\ input = [w \in WfIds |-> <<>>]
  /\ output = Null

NextStore == SaveOp \/ ListOp

SpecStore == InitStore /\ [][NextStore]_vars

\* ------------------------------------------------------------------------
\* The approval store on its own: tokens created, consumed and ageing
\*   input   the tokens created and not consumed since, with the time of
\*           their latest creation
\*   output  the latest consumePending call: its token, its time, what it
\*           returned, and input as it was before the call
\* ------------------------------------------------------------------------
UnknownToken == <<0, 9>>

CreateOp ==
  /\ Cardinality(DOMAIN input) < MaxPending
  /\ \E tool \in {"update_nodes"}, rand \in Rands :
       \E created \in {createPending(approval, tool, tool, now, rand)} :
         /\ approval' = created.approval
         /\ input' = ObjSet(input, created.token, now)
  /\ output' = Null
  /\ UNCHANGED <<engine, store, auditLog, now, last, ncalls, faulty>>

KnownTokens == DOMAIN input \cup DOMAIN approval.pending \cup {UnknownToken}

ConsumeOp ==
  /\ \E token \in KnownTokens :
       \E consumed \in {consumePending(approval, token, now)} :
         /\ approval' = consumed.approval
         /\ output' = Some([token |-> token, at |-> now, op |-> consumed.op, before |-> input])
         /\ input' = ObjDel(input, token)
  /\ UNCHANGED <<engine, store, auditLog, now, last, ncalls, faulty>>

TickOp ==
  /\ Tick
  /\ output' = Null
  /\ UNCHANGED input

InitApproval ==
  /\ engine = [w \in WfIds |-> Null]
  /\ store = EmptyStore
  /\ approval \in {[enabled |-> e, pending |-> EmptyObj] : e \in BOOLEAN}
  /\ auditLog = <<>>
  /\ now = 0
  /\ last = NoCall
  /\ ncalls = 0
  /\ faulty = FALSE
  /\ input = EmptyObj
  /\ output = Null

NextApproval == CreateOp \/ ConsumeOp \/ TickOp

SpecApproval == InitApproval /\ [][NextApproval]_vars

\* ------------------------------------------------------------------------
\* Graph traversal for focus mode
\*   an adjacency map is a function from the names that have entries to
\*   their entry sequences; maxDepth is Null for "no limit"
\* ------------------------------------------------------------------------
AdjEntry(node, conn) ==
  [node |-> node, outputIndex |-> OrElse(conn.outputIndex, 0), inputIndex |-> OrElse(conn.inputIndex, 0),
   type |-> conn.type]

AdjPush(map, key, entry) ==
  ObjSet(map, key, IF key \in DOMAIN map THEN Append(map[key], entry) ELSE <<entry>>)

RECURSIVE BuildAdjacencyFrom(_, _)
BuildAdjacencyFrom(flow, maps) ==
  IF flow = <<>> THEN maps
  ELSE LET conn == Head(flow) IN
       BuildAdjacencyFrom(Tail(flow),
         [forward |-> AdjPush(maps.forward, conn.from, AdjEntry(conn.to, conn)),
          reverse |-> AdjPush(maps.reverse, conn.to, AdjEntry(conn.from, conn))])

buildAdjacency(flow) == BuildAdjacencyFrom(flow, [forward |-> EmptyObj, reverse |-> EmptyObj])

\* the start nodes that enter the queue
RECURSIVE BfsStarts(_, _)
BfsStarts(startNodes, exclude) ==
  IF startNodes = <<>> THEN <<>>
  ELSE (IF Head(startNodes) \notin exclude THEN <<<<Head(startNodes), 0>>>> ELSE <<>>)
       \o BfsStarts(Tail(startNodes), exclude)

\* one pass over the neighbours of the node taken from the queue
RECURSIVE BfsVisit(_, _, _, _, _)
BfsVisit(neighbors, depth, queue, visited, exclude) ==
  IF neighbors = <<>> THEN [queue |-> queue, visited |-> visited]
  ELSE LET n == Head(neighbors).node IN
       IF n \notin visited /\ n \notin exclude
       THEN BfsVisit(Tail(neighbors), depth, Append(queue, <<n, depth + 1>>), visited \cup {n}, exclude)
       ELSE BfsVisit(Tail(neighbors), depth, queue, visited, exclude)

RECURSIVE BfsLoop(_, _, _, _, _)
BfsLoop(queue, visited, adj, maxDepth, exclude) ==
  IF queue = <<>> THEN visited
  ELSE LET current == Head(queue)[1]
           depth == Head(queue)[2]
       IN IF maxDepth # Null /\ depth >= maxDepth[1]
          THEN BfsLoop(Tail(queue), visited, adj, maxDepth, exclude)
          ELSE LET neighbors == IF current \in DOMAIN adj THEN adj[current] ELSE <<>>
                   step == BfsVisit(neighbors, depth, Tail(queue), visited, exclude)
               IN BfsLoop(step.queue, step.visited, adj, maxDepth, exclude)

Bfs(startNodes, adj, maxDepth, exclude) ==
  LET starts == BfsStarts(startNodes, exclude) IN
  BfsLoop(starts, {starts[i][1] : i \in 1..Len(starts)}, adj, maxDepth, exclude)

bfsForward(startNodes, forward, maxDepth, excludeNodes) == Bfs(startNodes, forward, maxDepth, excludeNodes)

bfsBackward(startNodes, reverse, maxDepth, excludeNodes) == Bfs(startNodes, reverse, maxDepth, excludeNodes)

\* focusedNames is the focused set in its iteration order
classifyNodes(allNodeNames, focusedNames, flow) ==
  LET adj == buildAdjacency(flow)
      focusedSet == Range(focusedNames)
      upstream == bfsBackward(focusedNames, adj.reverse, Null, focusedSet)
      downstream == bfsForward(focusedNames, adj.forward, Null, focusedSet)
  IN [name \in Range(allNodeNames) \cup focusedSet |->
        IF name \in focusedSet THEN "focused"
        ELSE IF name \in downstream THEN "downstream"
        ELSE IF name \in upstream THEN "upstream"
        ELSE "parallel"]

\* the stats of buildFocusedView: every node of the workflow is counted once
ZoneCount(allNodeNames, classification, zone) ==
  Cardinality({i \in 1..Len(allNodeNames) :
     (IF allNodeNames[i] \in DOMAIN classification THEN classification[allNodeNames[i]] ELSE "parallel") = zone})

buildFocusedViewStats(allNodeNames, focusedNames, flow) ==
  LET classification == classifyNodes(allNodeNames, focusedNames, flow) IN
  [focusedCount |-> ZoneCount(allNodeNames, classification, "focused"),
   upstreamCount |-> ZoneCount(allNodeNames, classification, "upstream"),
   downstreamCount |-> ZoneCount(allNodeNames, classification, "downstream"),
   parallelCount |-> ZoneCount(allNodeNames, classification, "parallel")]

\* ------------------------------------------------------------------------
\* Classification on its own: a workflow graph and a focused set are drawn,
\* then classified
\* ------------------------------------------------------------------------
NodeNames == <<"N1", "N2", "N3", "N4", "N5", "N6", "N7", "N8", "N9", "N10">>

FirstNames(n) == SubSeq(NodeNames, 1, n)

NameIndex(name) == CHOOSE i \in 1..Len(NodeNames) : NodeNames[i] = name

\* a set of names or of edges as a sequence, in the order of NodeNames
RECURSIVE OrderedSeq(_)
OrderedSeq(edges) ==
  IF edges = {} THEN <<>>
  ELSE LET e == CHOOSE x \in edges : \A y \in edges :
                  \/ NameIndex(x[1]) < NameIndex(y[1])
                  \/ NameIndex(x[1]) = NameIndex(y[1]) /\ NameIndex(x[2]) <= NameIndex(y[2])
       IN <<e>> \o OrderedSeq(edges \ {e})

FlowOf(edges) == LET es == OrderedSeq(edges) IN [i \in 1..Len(es) |-> LiteConn(es[i][1], es[i][2])]

NamesOf(set) == SeqFilter(NodeNames, set)

Chain(n) == [i \in 1..(n - 1) |-> LiteConn(NodeNames[i], NodeNames[i + 1])]

SmallGraphs ==
  LET names == Range(FirstNames(MaxNodes))
      pairs == names \X names
  IN {[names |-> FirstNames(MaxNodes), focused |-> NamesOf(F), flow |-> FlowOf(edges)] :
        F \in SUBSET names \ {{}}, edges \in {E \in SUBSET pairs : Cardinality(E) <= MaxEdges}}

ChainGraph == [names |-> NodeNames, focused |-> <<"N5">>, flow |-> Chain(10)]

GraphInputs == SmallGraphs \cup {ChainGraph}

Classify ==
  /\ output = Null
  /\ output' = Some([zones |-> classifyNodes(input.names, input.focused, input.flow),
                     stats |-> buildFocusedViewStats(input.names, input.focused, input.flow)])
  /\ UNCHANGED <<engine, store, approval, auditLog, now, last, ncalls, faulty, input>>

InitGraph ==
  /\ engine = [w \in WfIds |-> Null]
  /\ store = EmptyStore
  /\ approval = [enabled |-> FALSE, pending |-> EmptyObj]
  /\ auditLog = <<>>
  /\ now = 0
  /\ last = NoCall
  /\ ncalls = 0
  /\ faulty = FALSE
  /\ input \in GraphInputs
  /\ output = Null

NextGraph == Classify

SpecGraph == InitGraph /\ [][NextGraph]_vars

\* ------------------------------------------------------------------------
\* Properties of the tool calls
\* ------------------------------------------------------------------------
WriteMethods == {"POST", "PUT", "DELETE"}

WritesOf(call) == {i \in 1..Len(call.requests) : call.requests[i].method \in WriteMethods}

SnapshotTools == {"create_workflow", "update_workflow", "update_nodes", "delete_workflow", "rollback_workflow"}

\* C1: every successful create_workflow, update_workflow, update_nodes,
\* delete_workflow and rollback_workflow call has saved a snapshot, and that
\* snapshot was listed by listSnapshots when its POST, PUT or DELETE left.
C1_SnapshotBeforeEveryWrite ==
  (last.tool \in SnapshotTools /\ last.result.kind = "ok") =>
     \A i \in WritesOf(last) :
        /\ last.saved # Null
        /\ last.saved[1] \in Range(last.requests[i].listed)

\* C2: when the preflight of create_workflow, update_workflow or update_nodes
\* finds an error, the result is blocked and carries the preflight's errors
\* and warnings, no POST or PUT is sent, and for the two update tools the
\* snapshot saved earlier in the call is still listed.
C2_BlockedCallSendsNothing ==
  (last.preflight # Null /\ last.preflight[1].errors # <<>>) =>
     /\ last.tool \in {"create_workflow", "update_workflow", "update_nodes"}
     /\ last.result.kind = "blocked"
     /\ last.result.errors = last.preflight[1].errors
     /\ last.result.warnings = last.preflight[1].warnings
     /\ WritesOf(last) = {}
     /\ last.tool \in {"update_workflow", "update_nodes"} =>
          /\ last.saved # Null
          /\ last.saved[1] \in Range(ListedIds(store, last.workflowId))

C2_Witness ==
  /\ last.tool = "update_nodes"
  /\ last.result.kind = "blocked"
  /\ last.result.errors # <<>>
  /\ last.saved # Null
  /\ last.requests # <<>>

\* C3: every POST, PUT or DELETE of a create, update, delete or rollback call
\* is preceded, in the same call, by a preflight that returned pass = true,
\* whatever arguments update_workflow was given.
C3_PreflightBeforeEveryWrite ==
  (last.tool \in SnapshotTools /\ WritesOf(last) # {}) =>
     /\ last.preflight # Null
     /\ last.preflight[1].pass

HasSecurityFinding(findings) == \E i \in 1..Len(findings) : findings[i].type = "security"

Min(a, b) == IF a < b THEN a ELSE b

RollbackRan(call) == call.tool = "rollback_workflow" /\ call.requests # <<>>

\* the single PUT of a rollback carries what the snapshot stores
RestoresStored(call, st) ==
  /\ Len(call.requests) = 2
  /\ call.requests[1].method = "GET"
  /\ call.requests[2].method = "PUT"
  /\ call.snapshotId \in DOMAIN st.files[call.workflowId] =>
       LET data == st.files[call.workflowId][call.snapshotId]
           body == call.requests[2].body
       IN /\ {"name", "nodes", "connections"} \subseteq DOMAIN body
          /\ body.name = data.name
          /\ body.nodes = data.nodes
          /\ body.connections = data.connections
          /\ data.settings # "" => ("settings" \in DOMAIN body /\ body.settings = data.settings)

SavedManual(call, st) ==
  /\ call.saved # Null
  /\ call.saved[1] \in Range(call.requests[2].listed)
  /\ \E i \in 1..Len(st.index[call.workflowId]) :
        /\ st.index[call.workflowId][i].id = call.saved[1]
        /\ st.index[call.workflowId][i].trigger = "manual"

CountApproved(log, k, flag) == Cardinality({i \in 1..k : log[i].approved = flag})

Rejected(call) == call.result.kind = "error" /\ call.result.text = "Invalid or expired approve token"

C8_TokenOnceWhileFresh ==
  output # Null =>
     LET o == output[1] IN
     /\ o.op # Null <=> (o.token \in DOMAIN o.before /\ o.at - o.before[o.token] <= TOKEN_TTL_MS)
     /\ o.op # Null => (o.op[1].token = o.token /\ o.op[1].createdAt = o.before[o.token])
     /\ o.token \notin DOMAIN approval.pending

C8_Witness ==
  /\ output # Null
  /\ output[1].op # Null
  /\ output[1].at - output[1].op[1].createdAt = TOKEN_TTL_MS
  /\ output[1].token \notin DOMAIN approval.pending

\* ------------------------------------------------------------------------
\* Properties under file-system failures
\* ------------------------------------------------------------------------
\* a call that no preflight and no argument check can stop
AlwaysWrites(call) ==
  \/ call.tool \in {"delete_workflow", "rollback_workflow"}
  \/ call.tool = "update_workflow" /\ ~({"nodes", "flow"} \subseteq call.argKeys)

\* C9: when saveSnapshot throws, the call does not fail with that error, and
\* update_workflow, delete_workflow and rollback_workflow still send their
\* write.
C9_SnapshotFailureNeverStopsWrite ==
  last.snapshotFailed =>
     /\ last.result.text # "snapshot write failed"
     /\ AlwaysWrites(last) => WritesOf(last) # {}

\* ------------------------------------------------------------------------
\* Properties of the classification
\* ------------------------------------------------------------------------
EdgesOf(flow) == {<<flow[i].from, flow[i].to>> : i \in 1..Len(flow)}

\* the nodes reached from a set along edges, the set included
RECURSIVE ReachedFrom(_, _)
ReachedFrom(set, edges) ==
  LET next == set \cup {e[2] : e \in {x \in edges : x[1] \in set}} IN
  IF next = set THEN set ELSE ReachedFrom(next, edges)

Reversed(edges) == {<<e[2], e[1]>> : e \in edges}

ExpectedZone(n, focused, edges) ==
  IF n \in ReachedFrom(focused, edges) THEN "downstream"
  ELSE IF n \in ReachedFrom(focused, Reversed(edges)) THEN "upstream"
  ELSE "parallel"

\* C10: a node outside the focused set is labelled downstream when some
\* focused node forward-reaches it, upstream when none does and it
\* forward-reaches a focused node, parallel otherwise; the chain N1..N10
\* focused on N5 has 4 upstream, 5 downstream and 0 parallel nodes.
C10_ZonesFollowReachability ==
  output # Null =>
     LET focused == Range(input.focused)
         edges == EdgesOf(input.flow)
     IN /\ \A n \in Range(input.names) \ focused :
             output[1].zones[n] = ExpectedZone(n, focused, edges)
        /\ input = ChainGraph =>
             /\ output[1].stats.upstreamCount = 4
             /\ output[1].stats.downstreamCount = 5
             /\ output[1].stats.parallelCount = 0

\* ------------------------------------------------------------------------
\* Boundaries of a focus area
\* ------------------------------------------------------------------------
\* an index is copied only when it is truthy
TruthyIndex(idx) == IF idx # Null /\ idx[1] # 0 THEN idx ELSE Null

Boundary(conn, direction) ==
  [from |-> conn.from, to |-> conn.to, outputIndex |-> TruthyIndex(conn.outputIndex),
   inputIndex |-> TruthyIndex(conn.inputIndex), direction |-> direction]

IsEntryAnySource(fromInFocus, toInFocus) == toInFocus

IsEntry(fromInFocus, toInFocus) == ~fromInFocus /\ toInFocus

IsExit(fromInFocus, toInFocus) == fromInFocus /\ ~toInFocus

RECURSIVE findBoundaries(_, _)
findBoundaries(focusedNames, flow) ==
  IF flow = <<>> THEN <<>>
  ELSE (IF IsEntry(Head(flow).from \in focusedNames, Head(flow).to \in focusedNames)
        THEN <<Boundary(Head(flow), "entry")>>
        ELSE IF IsExit(Head(flow).from \in focusedNames, Head(flow).to \in focusedNames)
        THEN <<Boundary(Head(flow), "exit")>>
        ELSE <<>>)
       \o findBoundaries(focusedNames, Tail(flow))

\* graphs whose flow lists every connection twice, next to the plain ones
BoundaryInputs == SmallGraphs \cup {[g EXCEPT !.flow = @ \o @] : g \in SmallGraphs}

FindBoundaries ==
  /\ output = Null
  /\ output' = Some([boundaries |-> findBoundaries(Range(input.focused), input.flow)])
  /\ UNCHANGED <<engine, store, approval, auditLog, now, last, ncalls, faulty, input>>

InitBoundaries ==
  /\ engine = [w \in WfIds |-> Null]
  /\ store = EmptyStore
  /\ approval = [enabled |-> FALSE, pending |-> EmptyObj]
  /\ auditLog = <<>>
  /\ now = 0
  /\ last = NoCall
  /\ ncalls = 0
  /\ faulty = FALSE
  /\ input \in BoundaryInputs
  /\ output = Null

NextBoundaries == FindBoundaries

SpecBoundaries == InitBoundaries /\ [][NextBoundaries]_vars

Straddles(conn, focused) == (conn.from \in focused) # (conn.to \in focused)

\* C11: every boundary findBoundaries returns has exactly one endpoint in the
\* focused set (an entry comes from outside into it, an exit leaves it), and
\* there are as many boundaries as connections that straddle the set.
C11_BoundariesStraddleFocus ==
  output # Null =>
     LET focused == Range(input.focused)
         boundaries == output[1].boundaries
     IN /\ \A i \in 1..Len(boundaries) :
             /\ boundaries[i].direction \in {"entry", "exit"}
             /\ boundaries[i].direction = "entry" =>
                  (boundaries[i].from \notin focused /\ boundaries[i].to \in focused)
             /\ boundaries[i].direction = "exit" =>
                  (boundaries[i].from \in focused /\ boundaries[i].to \notin focused)
        /\ Len(boundaries) =
             Cardinality({i \in 1..Len(input.flow) : Straddles(input.flow[i], focused)})

C11_Witness ==
  /\ output # Null
  /\ \E i, j \in 1..Len(output[1].boundaries) :
        /\ output[1].boundaries[i].direction = "entry"
        /\ output[1].boundaries[j].direction = "exit"
  /\ Len(output[1].boundaries) < Len(input.flow)

\* ------------------------------------------------------------------------
\* Raw -> lite: node types, nodes and connections
\*   the node types of the model are the three full names above
\* ------------------------------------------------------------------------
MaxConns == 2

simplifyNodeType(fullType) ==
  CASE fullType = TypeTrigger -> "manualTrigger"
    [] fullType = TypeText -> "text"
    [] OTHER -> fullType

\* parameters survive cleaning unless nothing is left of them
cleanParams(params) == IF DOMAIN params = {} THEN Null ELSE Some(params)

simplifyNode(node) ==
  [name |-> node.name, type |-> simplifyNodeType(node.type), params |-> cleanParams(node.parameters),
   disabled |-> node.disabled]

SimplifyTarget(sourceName, outputType, outputIdx, target) ==
  [from |-> sourceName, to |-> target.node,
   type |-> IF outputType # "main" THEN Some(outputType) ELSE Null,
   outputIndex |-> IF outputIdx > 0 THEN Some(outputIdx) ELSE Null,
   inputIndex |-> IF target.index > 0 THEN Some(target.index) ELSE Null]

\* the targets of one output slot; outputIdx counts from 0
SimplifyTargets(sourceName, outputType, outputIdx, targets) ==
  [j \in 1..Len(targets) |-> SimplifyTarget(sourceName, outputType, outputIdx, targets[j])]

RECURSIVE SimplifySlots(_, _, _, _)
SimplifySlots(sourceName, outputType, outputArrays, slot) ==
  IF slot > Len(outputArrays) THEN <<>>
  ELSE SimplifyTargets(sourceName, outputType, slot - 1, outputArrays[slot])
       \o SimplifySlots(sourceName, outputType, outputArrays, slot + 1)

RECURSIVE SimplifyTypes(_, _, _)
SimplifyTypes(sourceName, outputs, typeKeys) ==
  IF typeKeys = <<>> THEN <<>>
  ELSE SimplifySlots(sourceName, Head(typeKeys), outputs[Head(typeKeys)], 1)
       \o SimplifyTypes(sourceName, outputs, Tail(typeKeys))

RECURSIVE SimplifySources(_, _)
SimplifySources(connections, sourceKeys) ==
  IF sourceKeys = <<>> THEN <<>>
  ELSE SimplifyTypes(Head(sourceKeys), connections[Head(sourceKeys)],
                     TypeKeys(connections[Head(sourceKeys)]))
       \o SimplifySources(connections, Tail(sourceKeys))

simplifyConnections(connections) == SimplifySources(connections, SourceKeys(connections))

\* ------------------------------------------------------------------------
\* The codec on its own: a lite flow is reconstructed, a raw workflow is
\* simplified and reconstructed
\* ------------------------------------------------------------------------
CodecSources == {"A", "B"}
CodecKinds == {"main", "ai_tool"}
CodecIndices == {0, 1}

\* tuples of at most n elements of a set
RECURSIVE SeqsUpTo(_, _)
SeqsUpTo(set, n) ==
  IF n = 0 THEN {<<>>}
  ELSE LET shorter == SeqsUpTo(set, n - 1) IN
       shorter \cup {Append(s, x) : s \in {t \in shorter : Len(t) = n - 1}, x \in set}

LiteConns ==
  {[from |-> f, to |-> "C", type |-> IF k = "main" THEN Null ELSE Some(k), outputIndex |-> Null,
    inputIndex |-> i] : f \in CodecSources, k \in CodecKinds, i \in {Null} \cup {Some(x) : x \in CodecIndices}}

LiteFlows == SeqsUpTo(LiteConns, MaxConns)

MergeIndices == {Null} \cup {Some(x) : x \in 0..MaxConns}

Reconstruct ==
  /\ output = Null
  /\ input.kind = "lite"
  /\ output' = Some([fn |-> "reconstructWorkflow",
                     connections |-> ReconstructConnections(input.flow, EmptyObj, EmptyObj)])
  /\ UNCHANGED <<engine, store, approval, auditLog, now, last, ncalls, faulty, input>>

\* every incoming connection of the raw map, with its place in the map
Incoming(connections) ==
  UNION {UNION {UNION {
     {[from |-> src, kind |-> k, outputIndex |-> slot - 1, pos |-> j,
       node |-> connections[src][k][slot][j].node, index |-> connections[src][k][slot][j].index] :
        j \in 1..Len(connections[src][k][slot])} :
     slot \in 1..Len(connections[src][k])} : k \in DOMAIN connections[src]} : src \in DOMAIN connections}

\* C12: in the connections reconstructWorkflow builds from any lite flow, the
\* incoming connections of one (target, output kind) pair have pairwise
\* distinct input indices.
C12_InputIndicesDistinct ==
  (output # Null /\ output[1].fn = "reconstructWorkflow") =>
     \A a, b \in Incoming(output[1].connections) :
        (a # b /\ a.node = b.node /\ a.kind = b.kind) => a.index # b.index

\* ------------------------------------------------------------------------
\* topologicalSort (Kahn's algorithm over the raw connection map)
\*   inDegree is kept as its key sequence (insertion order) and its counts
\* ------------------------------------------------------------------------
RECURSIVE AllTargets(_, _)
AllTargets(connections, sourceKeys) ==
  IF sourceKeys = <<>> THEN <<>>
  ELSE TargetsOf(connections, Head(sourceKeys)) \o AllTargets(connections, Tail(sourceKeys))

NodeNamesOf(nodes) == [i \in 1..Len(nodes) |-> nodes[i].name]

\* the keys of a map after setting the names of a sequence in order
RECURSIVE KeysAfter(_, _)
KeysAfter(keys, names) ==
  IF names = <<>> THEN keys
  ELSE KeysAfter(IF Head(names) \in Range(keys) THEN keys ELSE Append(keys, Head(names)), Tail(names))

InDegreeKeys(nodes, targets) ==
  KeysAfter(KeysAfter(<<>>, NodeNamesOf(nodes)), [i \in 1..Len(targets) |-> targets[i].node])

InDegreeOf(nodes, targets) ==
  [name \in Range(InDegreeKeys(nodes, targets)) |->
     Cardinality({i \in 1..Len(targets) : targets[i].node = name})]

\* adjacency has an entry for every node; only a node's own outputs fill it
AdjacencyOf(nodes, connections) ==
  [name \in Range(NodeNamesOf(nodes)) |->
     IF name \in DOMAIN connections
     THEN [i \in 1..Len(TargetsOf(connections, name)) |-> TargetsOf(connections, name)[i].node]
     ELSE <<>>]

RECURSIVE KahnVisit(_, _, _)
KahnVisit(neighbors, inDegree, queue) ==
  IF neighbors = <<>> THEN [inDegree |-> inDegree, queue |-> queue]
  ELSE KahnVisit(Tail(neighbors),
         [inDegree EXCEPT ![Head(neighbors)] = @ - 1],
         IF inDegree[Head(neighbors)] - 1 = 0 THEN Append(queue, Head(neighbors)) ELSE queue)

RECURSIVE KahnLoop(_, _, _, _)
KahnLoop(queue, inDegree, adjacency, sorted) ==
  IF queue = <<>> THEN sorted
  ELSE LET Visited(step) ==
             KahnLoop(step.queue, step.inDegree, adjacency,
                      IF Head(queue) \in DOMAIN adjacency THEN Append(sorted, Head(queue)) ELSE sorted)
       IN Visited(KahnVisit(IF Head(queue) \in DOMAIN adjacency THEN adjacency[Head(queue)] ELSE <<>>,
                            inDegree, Tail(queue)))

\* the nodes the queue never reached, in input order
RECURSIVE AppendMissing(_, _)
AppendMissing(sorted, names) ==
  IF names = <<>> THEN sorted
  ELSE AppendMissing(IF Head(names) \in Range(sorted) THEN sorted ELSE Append(sorted, Head(names)),
                     Tail(names))

\* the names of the nodes in the order topologicalSort returns the nodes
SortedNames(nodes, connections) ==
  LET Sorted(keys, inDegree) ==
        AppendMissing(KahnLoop(SeqFilter(keys, {k \in Range(keys) : inDegree[k] = 0}), inDegree,
                               AdjacencyOf(nodes, connections), <<>>),
                      NodeNamesOf(nodes))
      Counted(targets) == Sorted(InDegreeKeys(nodes, targets), InDegreeOf(nodes, targets))
  IN Counted(AllTargets(connections, SourceKeys(connections)))

topologicalSort(nodes, connections) ==
  LET Picked(names) ==
        [i \in 1..Len(names) |-> nodes[CHOOSE j \in 1..Len(nodes) : nodes[j].name = names[i]]]
  IN Picked(SortedNames(nodes, connections))

cleanSettings(settings) ==
  IF settings = "" \/ settings = "executionOrder:v1" THEN Null ELSE Some(settings)

simplifyWorkflow(raw) ==
  LET Mapped(sortedNodes) == [i \in 1..Len(sortedNodes) |-> simplifyNode(sortedNodes[i])] IN
  [name |-> raw.name, nodes |-> Mapped(topologicalSort(raw.nodes, raw.connections)),
   flow |-> simplifyConnections(raw.connections), settings |-> cleanSettings(raw.settings)]

\* ------------------------------------------------------------------------
\* Raw workflows for the round trip: three nodes and connections into C
\* ------------------------------------------------------------------------
RawEdges ==
  {[from |-> f, kind |-> k, outputIndex |-> o, node |-> "C", index |-> i] :
     f \in CodecSources, k \in CodecKinds, o \in CodecIndices, i \in CodecIndices}

RECURSIVE RawConnectionsOf(_, _)
RawConnectionsOf(edges, connections) ==
  IF edges = <<>> THEN connections
  ELSE RawConnectionsOf(Tail(edges),
         PushTarget(connections, Head(edges).from, Head(edges).kind, Head(edges).outputIndex,
                    [node |-> Head(edges).node, type |-> Head(edges).kind, index |-> Head(edges).index]))

RawWorkflowOf(edges) ==
  [id |-> "w1", name |-> "W1",
   nodes |-> <<[name |-> "A", type |-> TypeTrigger, parameters |-> EmptyObj, disabled |-> FALSE],
               RawNode("B", TypeText, TxtPlain), RawNode("C", TypeCustom, TxtPlain)>>,
   connections |-> RawConnectionsOf(edges, EmptyObj), settings |-> ""]

\* A -> IF, IF -> B (output 0), IF -> Merge (output 1), B -> Merge and
\* A -> Merge, the three connections into Merge with or without an inputIndex
MergeFlows ==
  {<<[from |-> "A", to |-> "IF", type |-> Null, outputIndex |-> Null, inputIndex |-> Null],
     [from |-> "IF", to |-> "B", type |-> Null, outputIndex |-> Null, inputIndex |-> Null],
     [from |-> "IF", to |-> "Merge", type |-> Null, outputIndex |-> Some(1), inputIndex |-> i1],
     [from |-> "B", to |-> "Merge", type |-> Null, outputIndex |-> Null, inputIndex |-> i2]>> \o tl :
     i1 \in MergeIndices, i2 \in MergeIndices,
     tl \in {<<>>} \cup {<<[from |-> "A", to |-> "Merge", type |-> Null, outputIndex |-> Null,
                           inputIndex |-> i3]>> : i3 \in MergeIndices}}

CodecInputs ==
  {[kind |-> "lite", flow |-> f] : f \in LiteFlows \cup MergeFlows}
    \cup {[kind |-> "raw", workflow |-> RawWorkflowOf(es)] : es \in SeqsUpTo(RawEdges, MaxConns)}

RoundTrip ==
  /\ output = Null
  /\ input.kind = "raw"
  /\ output' = Some([fn |-> "roundTrip",
                     workflow |-> reconstructWorkflow(simplifyWorkflow(input.workflow), Null)])
  /\ UNCHANGED <<engine, store, approval, auditLog, now, last, ncalls, faulty, input>>

InitCodec ==
  /\ engine = [w \in WfIds |-> Null]
  /\ store = EmptyStore
  /\ approval = [enabled |-> FALSE, pending |-> EmptyObj]
  /\ auditLog = <<>>
  /\ now = 0
  /\ last = NoCall
  /\ ncalls = 0
  /\ faulty = FALSE
  /\ input \in CodecInputs
  /\ output = Null

NextCodec == Reconstruct \/ RoundTrip

SpecCodec == InitCodec /\ [][NextCodec]_vars

ConnectionSet(connections) ==
  {[from |-> c.from, node |-> c.node, kind |-> c.kind, outputIndex |-> c.outputIndex, index |-> c.index] :
     c \in Incoming(connections)}

NamesAndTypes(nodes) == {<<nodes[i].name, nodes[i].type>> : i \in 1..Len(nodes)}

\* C13: simplifyWorkflow followed by reconstructWorkflow gives back the same
\* node names and types and the same set of connections, a connection being
\* its source, target, output kind, output index and target input index.
C13_RoundTripKeepsConnections ==
  (output # Null /\ output[1].fn = "roundTrip") =>
     /\ NamesAndTypes(output[1].workflow.nodes) = NamesAndTypes(input.workflow.nodes)
     /\ ConnectionSet(output[1].workflow.connections) = ConnectionSet(input.workflow.connections)

\* ------------------------------------------------------------------------
\* topologicalSort on its own: node lists in every order, connections among
\* the nodes and to or from a name that is no node
\* ------------------------------------------------------------------------
MaxSortEdges == 2

SortNodeNames == {"A", "B", "C"}

SortNodeLists ==
  {s \in SeqsUpTo(SortNodeNames, 3) : s # <<>> /\ \A i, j \in 1..Len(s) : i # j => s[i] # s[j]}

SortEdges ==
  {[from |-> f, kind |-> "main", outputIndex |-> 0, node |-> t, index |-> 0] : f \in Names, t \in Names}

SortInputs ==
  {[nodes |-> [i \in 1..Len(names) |-> RawNode(names[i], TypeText, TxtPlain)],
    connections |-> RawConnectionsOf(es, EmptyObj)] :
     names \in SortNodeLists, es \in SeqsUpTo(SortEdges, MaxSortEdges)}

TopologicalSort ==
  /\ output = Null
  /\ output' = Some([fn |-> "topologicalSort",
                     sorted |-> NodeNamesOf(topologicalSort(input.nodes, input.connections))])
  /\ UNCHANGED <<engine, store, approval, auditLog, now, last, ncalls, faulty, input>>

InitSort ==
  /\ engine = [w \in WfIds |-> Null]
  /\ store = EmptyStore
  /\ approval = [enabled |-> FALSE, pending |-> EmptyObj]
  /\ auditLog = <<>>
  /\ now = 0
  /\ last = NoCall
  /\ ncalls = 0
  /\ faulty = FALSE
  /\ input \in SortInputs
  /\ output = Null

NextSort == TopologicalSort

SpecSort == InitSort /\ [][NextSort]_vars

ConnectionEdges(connections) ==
  UNION {{<<src, t.node>> : t \in Range(TargetsOf(connections, src))} : src \in DOMAIN connections}

\* the names reached from n along at least one connection
Successors(n, edges) == ReachedFrom({e[2] : e \in {x \in edges : x[1] = n}}, edges)

Acyclic(edges) == \A n \in Names : n \notin Successors(n, edges)

PositionIn(sorted, name) == CHOOSE i \in 1..Len(sorted) : sorted[i] = name

EachNodeOnce(sorted, nodes) ==
  /\ Len(sorted) = Len(nodes)
  /\ Range(sorted) = Range(NodeNamesOf(nodes))

PrecedesReachable(sorted, edges) ==
  \A a, b \in Range(sorted) :
     b \in Successors(a, edges) => PositionIn(sorted, a) < PositionIn(sorted, b)

\* C14: topologicalSort returns every input node exactly once, cyclic graph
\* or not, and when the connection graph is acyclic every returned node
\* comes before all the nodes reachable from it.
C14_SortedOnceAndInOrder ==
  (output # Null /\ output[1].fn = "topologicalSort") =>
     /\ EachNodeOnce(output[1].sorted, input.nodes)
     /\ Acyclic(ConnectionEdges(input.connections)) =>
          PrecedesReachable(output[1].sorted, ConnectionEdges(input.connections))

\* ------------------------------------------------------------------------
\* autoLayout (transform/layout.ts)
\*   A lane is a fraction [n, d]; d = 0 stands for a value that is not finite
\*   (a division by zero).  A Map read with `?? []` is a function that is <<>>
\*   where the Map has no entry.
\* ------------------------------------------------------------------------
SPACING_X == 250
SPACING_Y == 200
BASE_X == 250
BASE_Y == 300

MaxLayoutEdges == 3

Lane(n) == [n |-> n, d |-> 1]
LaneAdd(a, b) == [n |-> a.n * b.d + b.n * a.d, d |-> a.d * b.d]
LaneDiv(a, k) == [n |-> a.n, d |-> a.d * k]
LaneLess(a, b) == a.n * b.d < b.n * a.d

\* Math.round(base + lane * spacing), Null when the lane is not finite
RoundedAt(base, spacing, lane) ==
  IF lane.d = 0 THEN Null
  ELSE Some((2 * (base * lane.d + spacing * lane.n) + lane.d) \div (2 * lane.d))

AdjOf(conn, node) ==
  [node |-> node, outputIndex |-> OrElse(conn.outputIndex, 0)]

\* forward and reverse keep only the connections between two known nodes
buildLocalAdjacency(flow, nodeNames) ==
  LET Known(kept) ==
        [forward |-> [name \in nodeNames |->
                        LET out == SeqFilter(kept, {c \in Range(kept) : c.from = name})
                        IN [i \in 1..Len(out) |-> AdjOf(out[i], out[i].to)]],
         reverse |-> [name \in nodeNames |->
                        LET inc == SeqFilter(kept, {c \in Range(kept) : c.to = name})
                        IN [i \in 1..Len(inc) |-> AdjOf(inc[i], inc[i].from)]]]
  IN Known(SeqFilter(flow, {c \in Range(flow) : c.from \in nodeNames /\ c.to \in nodeNames}))

MaxOf(set) == CHOOSE x \in set : \A y \in set : y <= x

detectBranchPoints(flow, nodeNames) ==
  [name \in nodeNames |->
     MaxOf({0} \cup {OrElse(flow[i].outputIndex, 0) : i \in {j \in 1..Len(flow) : flow[j].from = name}})]

\* the nodes without an incoming connection, or the first node when there is none
RootsOf(nodes, reverse) ==
  LET roots == SeqFilter(nodes, {n \in Range(nodes) : reverse[n] = <<>>}) IN
  IF roots = <<>> /\ Len(nodes) > 0 THEN <<nodes[1]>> ELSE roots

RaisesFirstOnly(layers, nb, newLayer) == nb \notin DOMAIN layers

\* existingLayer === undefined || newLayer > existingLayer
Raises(layers, nb, newLayer) == nb \notin DOMAIN layers \/ newLayer > layers[nb]

MaxIterationsCubed(n) == n * n * n * 2 + n + 1
MaxIterations(n) == n * n * 2 + n + 1

RECURSIVE LayerNeighbors(_, _, _, _)
LayerNeighbors(neighbors, newLayer, layers, queue) ==
  IF neighbors = <<>> THEN [layers |-> layers, queue |-> queue]
  ELSE LET nb == Head(neighbors).node IN
       IF Raises(layers, nb, newLayer)
       THEN LayerNeighbors(Tail(neighbors), newLayer, ObjSet(layers, nb, newLayer),
                           Append(queue, <<nb, newLayer>>))
       ELSE LayerNeighbors(Tail(neighbors), newLayer, layers, queue)

\* the queue loop; steps counts the entries taken from the queue
RECURSIVE LayerLoop(_, _, _, _, _)
LayerLoop(queue, layers, maxIterations, steps, forward) ==
  IF queue = <<>> THEN [layers |-> layers, steps |-> steps, cut |-> FALSE]
  ELSE IF maxIterations - 1 < 0 THEN [layers |-> layers, steps |-> steps, cut |-> TRUE]
  ELSE LET Stepped(visited) ==
             LayerLoop(visited.queue, visited.layers, maxIterations - 1, steps + 1, forward)
       IN Stepped(LayerNeighbors(forward[Head(queue)[1]], Head(queue)[2] + 1, layers, Tail(queue)))

assignLayers(nodes, forward, reverse) ==
  LET Filled(done) ==
        [layers |-> [n \in Range(nodes) |-> IF n \in DOMAIN done.layers THEN done.layers[n] ELSE 0],
         steps |-> done.steps, cut |-> done.cut]
      Started(roots) ==
        Filled(LayerLoop([i \in 1..Len(roots) |-> <<roots[i], 0>>],
                         [n \in Range(roots) |-> 0], MaxIterations(Len(nodes)), 0, forward))
  IN Started(RootsOf(nodes, reverse))

\* the output indices of the children, ascending
RECURSIVE SortedOutputs(_)
SortedOutputs(set) ==
  IF set = {} THEN <<>>
  ELSE LET least == CHOOSE x \in set : \A y \in set : x <= y
       IN <<least>> \o SortedOutputs(set \ {least})

\* the children of a branch node with their lanes, output by output
RECURSIVE FanVisits(_, _, _, _)
FanVisits(sortedOutputs, i, children, currentLane) ==
  IF i >= Len(sortedOutputs) THEN <<>>
  ELSE LET childNames == SeqFilter(children, {c \in Range(children) : c.outputIndex = sortedOutputs[i + 1]})
           childLane == LaneAdd(currentLane, [n |-> 2 * i - (Len(sortedOutputs) - 1), d |-> 2])
       IN [k \in 1..Len(childNames) |-> <<childNames[k].node, childLane>>]
          \o FanVisits(sortedOutputs, i + 1, children, currentLane)

\* the recursive calls dfsAssignLane makes for one node, in order
ChildVisits(children, maxOutput, currentLane) ==
  IF maxOutput > 0 /\ Len(children) > 1
  THEN FanVisits(SortedOutputs({children[k].outputIndex : k \in 1..Len(children)}), 0, children, currentLane)
  ELSE [k \in 1..Len(children) |-> <<children[k].node, currentLane>>]

RECURSIVE dfsAssignLane(_, _, _, _, _)
RECURSIVE DfsVisits(_, _, _, _)
dfsAssignLane(nodeName, currentLane, st, forward, branchOutputs) ==
  IF nodeName \in st.visited THEN st
  ELSE DfsVisits(ChildVisits(forward[nodeName], branchOutputs[nodeName], currentLane),
                 [lanes |-> ObjSet(st.lanes, nodeName, currentLane),
                  visited |-> st.visited \cup {nodeName}],
                 forward, branchOutputs)

DfsVisits(visits, st, forward, branchOutputs) ==
  IF visits = <<>> THEN st
  ELSE DfsVisits(Tail(visits),
                 dfsAssignLane(Head(visits)[1], Head(visits)[2], st, forward, branchOutputs),
                 forward, branchOutputs)

getMaxLane(lanes) ==
  IF DOMAIN lanes = {} THEN Lane(0)
  ELSE lanes[CHOOSE k \in DOMAIN lanes : \A j \in DOMAIN lanes : ~LaneLess(lanes[k], lanes[j])]

RECURSIVE LaneRoots(_, _, _, _, _)
LaneRoots(roots, nextRootLane, st, forward, branchOutputs) ==
  IF roots = <<>> THEN [st |-> st, nextRootLane |-> nextRootLane]
  ELSE IF Head(roots) \in st.visited
  THEN LaneRoots(Tail(roots), nextRootLane, st, forward, branchOutputs)
  ELSE LET Walked(after) ==
             LaneRoots(Tail(roots), LaneAdd(getMaxLane(after.lanes), Lane(2)), after, forward, branchOutputs)
       IN Walked(dfsAssignLane(Head(roots), nextRootLane, st, forward, branchOutputs))

RECURSIVE LaneRemaining(_, _, _)
LaneRemaining(nodes, lanes, nextRootLane) ==
  IF nodes = <<>> THEN lanes
  ELSE IF Head(nodes) \in DOMAIN lanes THEN LaneRemaining(Tail(nodes), lanes, nextRootLane)
  ELSE LaneRemaining(Tail(nodes), ObjSet(lanes, Head(nodes), nextRootLane),
                     LaneAdd(nextRootLane, Lane(1)))

RECURSIVE LaneSum(_)
LaneSum(ls) == IF ls = <<>> THEN Lane(0) ELSE LaneAdd(Head(ls), LaneSum(Tail(ls)))

\* the first loop of centerMergeNodes: merge points take the mean lane of their parents
RECURSIVE CenterLoop(_, _, _, _)
CenterLoop(nodes, lanes, corrected, reverse) ==
  IF nodes = <<>> THEN [lanes |-> lanes, corrected |-> corrected]
  ELSE LET parents == reverse[Head(nodes)]
           known == SeqFilter(parents, {p \in Range(parents) : p.node \in DOMAIN lanes})
           parentLanes == [i \in 1..Len(known) |-> lanes[known[i].node]]
       IN IF Len(parents) > 1 /\ Len(parentLanes) >= 2
          THEN CenterLoop(Tail(nodes),
                          ObjSet(lanes, Head(nodes), LaneDiv(LaneSum(parentLanes), Len(parentLanes))),
                          IF Head(nodes) \in Range(corrected) THEN corrected
                          ELSE Append(corrected, Head(nodes)),
                          reverse)
          ELSE CenterLoop(Tail(nodes), lanes, corrected, reverse)

RECURSIVE PropagateChildren(_, _, _, _, _)
PropagateChildren(children, currentLane, lanes, queue, reverse) ==
  IF children = <<>> THEN [lanes |-> lanes, queue |-> queue]
  ELSE IF Len(reverse[Head(children).node]) <= 1
  THEN PropagateChildren(Tail(children), currentLane,
                         ObjSet(lanes, Head(children).node, currentLane),
                         Append(queue, Head(children).node), reverse)
  ELSE PropagateChildren(Tail(children), currentLane, lanes, queue, reverse)

RECURSIVE PropagateLoop(_, _, _, _, _)
PropagateLoop(queue, propagated, lanes, forward, reverse) ==
  IF queue = <<>> THEN lanes
  ELSE IF Head(queue) \in propagated \/ Head(queue) \notin DOMAIN lanes
  THEN PropagateLoop(Tail(queue), propagated \cup {Head(queue)}, lanes, forward, reverse)
  ELSE LET Pushed(after) ==
             PropagateLoop(after.queue, propagated \cup {Head(queue)}, after.lanes, forward, reverse)
       IN Pushed(PropagateChildren(forward[Head(queue)], lanes[Head(queue)], lanes, Tail(queue), reverse))

centerMergeNodes(nodes, lanes, reverse, forward) ==
  LET Centered(c) ==
        IF c.corrected # <<>> THEN PropagateLoop(c.corrected, {}, c.lanes, forward, reverse) ELSE c.lanes
  IN Centered(CenterLoop(nodes, lanes, <<>>, reverse))

assignLanes(nodes, branchOutputs, forward, reverse) ==
  LET Rooted(r) ==
        centerMergeNodes(nodes, LaneRemaining(nodes, r.st.lanes, r.nextRootLane), reverse, forward)
  IN Rooted(LaneRoots(RootsOf(nodes, reverse), Lane(0), [lanes |-> EmptyObj, visited |-> {}],
                      forward, branchOutputs))

computePositions(nodes, layers, lanes) ==
  [name \in Range(nodes) |->
     <<RoundedAt(BASE_X, SPACING_X, Lane(IF name \in DOMAIN layers THEN layers[name] ELSE 0)),
       RoundedAt(BASE_Y, SPACING_Y, IF name \in DOMAIN lanes THEN lanes[name] ELSE Lane(0))>>]

\* positions is the Map autoLayout returns; steps and cut report the layer pass
autoLayout(nodes, flow) ==
  IF Len(nodes) = 0 THEN [positions |-> EmptyObj, steps |-> 0, cut |-> FALSE]
  ELSE IF Len(nodes) = 1
  THEN [positions |-> [name \in {nodes[1]} |-> <<Some(BASE_X), Some(BASE_Y)>>], steps |-> 0, cut |-> FALSE]
  ELSE LET Placed(layered, lanes) ==
             [positions |-> computePositions(nodes, layered.layers, lanes),
              steps |-> layered.steps, cut |-> layered.cut]
           Built(adj, branchOutputs) ==
             Placed(assignLayers(nodes, adj.forward, adj.reverse),
                    assignLanes(nodes, branchOutputs, adj.forward, adj.reverse))
       IN Built(buildLocalAdjacency(flow, Range(nodes)), detectBranchPoints(flow, Range(nodes)))

LayoutNodeLists == {<<>>, <<"A">>, <<"A", "B">>, <<"B", "A">>, <<"A", "B", "C">>, <<"C", "A", "B">>}

LayoutEdges ==
  {[from |-> f, to |-> t, outputIndex |-> Null] : f \in {"A", "B", "C"}, t \in {"A", "B", "C"}}
    \cup {[from |-> "A", to |-> t, outputIndex |-> Some(1)] : t \in {"A", "B", "C"}}
    \cup {[from |-> "A", to |-> "X", outputIndex |-> Null]}

LayoutInputs ==
  {[nodes |-> ns, flow |-> f] : ns \in LayoutNodeLists, f \in SeqsUpTo(LayoutEdges, MaxLayoutEdges)}

AutoLayout ==
  /\ output = Null
  /\ output' = Some([fn |-> "autoLayout"] @@ autoLayout(input.nodes, input.flow))
  /\ UNCHANGED <<engine, store, approval, auditLog, now, last, ncalls, faulty, input>>

InitLayout ==
  /\ engine = [w \in WfIds |-> Null]
  /\ store = EmptyStore
  /\ approval = [enabled |-> FALSE, pending |-> EmptyObj]
  /\ auditLog = <<>>
  /\ now = 0
  /\ last = NoCall
  /\ ncalls = 0
  /\ faulty = FALSE
  /\ input \in LayoutInputs
  /\ output = Null

NextLayout == AutoLayout

SpecLayout == InitLayout /\ [][NextLayout]_vars

\* C15: autoLayout returns on every input, cyclic ones and ones without a
\* root included; its layer pass takes at most 3 * N * N entries from the
\* queue, N >= 2 being the number of nodes, and the result holds a finite
\* [x, y] for every input node.
C15_LayoutBoundedAndTotal ==
  (output # Null /\ output[1].fn = "autoLayout") =>
     /\ output[1].steps <= 3 * Len(input.nodes) * Len(input.nodes)
     /\ DOMAIN output[1].positions = Range(input.nodes)
     /\ \A name \in Range(input.nodes) :
          output[1].positions[name][1] # Null /\ output[1].positions[name][2] # Null

\* a three-node cycle without a root, cut by the iteration cap
C15_Witness ==
  /\ output # Null /\ output[1].fn = "autoLayout"
  /\ Len(input.nodes) = 3
  /\ \A n \in Range(input.nodes) : \E i \in 1..Len(input.flow) : input.flow[i].to = n
  /\ output[1].cut

\* ------------------------------------------------------------------------
\* focus_workflow: followBranch, findNodesBetween, discoverFocusArea,
\* discoverRange and the handler
\*   Array.from(set) is taken in the order of NameOrder; the order reaches
\*   no result below.
\* ------------------------------------------------------------------------
MaxFocusEdges == 2

BranchTargets(branchNode, outputIndex, flow) ==
  LET hits == SeqFilter(flow, {c \in Range(flow) :
                                 c.from = branchNode /\ OrElse(c.outputIndex, 0) = outputIndex})
  IN [i \in 1..Len(hits) |-> hits[i].to]

followBranch(branchNode, outputIndex, flow, maxDepth) ==
  LET Followed(branchTargets) ==
        IF Len(branchTargets) = 0 THEN {branchNode}
        ELSE bfsForward(branchTargets, buildAdjacency(flow).forward, maxDepth, {})
               \cup {branchNode} \cup Range(branchTargets)
  IN Followed(BranchTargets(branchNode, outputIndex, flow))

findNodesBetweenForwardOnly(fromNode, toNode, flow) ==
  bfsForward(<<fromNode>>, buildAdjacency(flow).forward, Null, {}) \cup {fromNode, toNode}

findNodesBetween(fromNode, toNode, flow) ==
  LET Between(adj) ==
        (bfsForward(<<fromNode>>, adj.forward, Null, {})
           \cap bfsBackward(<<toNode>>, adj.reverse, Null, {})) \cup {fromNode, toNode}
  IN Between(buildAdjacency(flow))

discoverFocusArea(raw, startNode, outputIndex, maxDepth, includeUpstream) ==
  LET Widened(flow, branchNodes) ==
        IF includeUpstream # Null /\ includeUpstream[1] > 0
        THEN branchNodes \cup bfsBackward(SeqFilter(NameOrder, branchNodes), buildAdjacency(flow).reverse,
                                          includeUpstream, branchNodes)
        ELSE branchNodes
      Simplified(flow) == Widened(flow, followBranch(startNode, outputIndex, flow, maxDepth))
  IN SeqFilter(NameOrder, Simplified(simplifyConnections(raw.connections)))

discoverRange(raw, fromNode, toNode) ==
  SeqFilter(NameOrder, findNodesBetween(fromNode, toNode, simplifyConnections(raw.connections)))

NodeExists(raw, name) == \E i \in 1..Len(raw.nodes) : raw.nodes[i].name = name

\* the result of focus_workflow and the focused names handed to buildFocusedView
FocusResult(result, focused) == [result |-> result, focused |-> focused]

focusWorkflow(args, raw) ==
  IF "id" \notin DOMAIN args THEN FocusResult(ResultErr("Missing workflow ID"), <<>>)
  ELSE IF "nodes" \in DOMAIN args
  THEN IF \E i \in 1..Len(args.nodes) : ~NodeExists(raw, args.nodes[i])
       THEN FocusResult(ResultErr("Nodes not found"), <<>>)
       ELSE FocusResult(ResultOk("focused"), args.nodes)
  ELSE IF "branch" \in DOMAIN args
  THEN IF ~NodeExists(raw, args.branch.node)
       THEN FocusResult(ResultErr("Branch node not found"), <<>>)
       ELSE LET Found(focusedNodeNames) ==
                  IF Len(focusedNodeNames) = 0
                  THEN FocusResult(ResultErr("No nodes found on output"), <<>>)
                  ELSE FocusResult(ResultOk("focused"), focusedNodeNames)
            IN Found(discoverFocusArea(raw, args.branch.node, args.branch.outputIndex,
                                       args.branch.maxDepth, args.branch.includeUpstream))
  ELSE IF "range" \in DOMAIN args
  THEN IF ~NodeExists(raw, args.range.from) THEN FocusResult(ResultErr("Start node not found"), <<>>)
       ELSE IF ~NodeExists(raw, args.range.to) THEN FocusResult(ResultErr("End node not found"), <<>>)
       ELSE LET Ranged(focusedNodeNames) ==
                  IF Len(focusedNodeNames) = 0
                  THEN FocusResult(ResultErr("No path found"), <<>>)
                  ELSE FocusResult(ResultOk("focused"), focusedNodeNames)
            IN Ranged(discoverRange(raw, args.range.from, args.range.to))
  ELSE FocusResult(ResultErr("Provide one of"), <<>>)

FocusEdges ==
  {[from |-> f, kind |-> "main", outputIndex |-> o, node |-> t, index |-> 0] :
     f \in {"A", "B"}, o \in {0, 1}, t \in {"B", "C"}}

FocusArgs ==
  {[id |-> "w1", nodes |-> ns] : ns \in {<<>>, <<"A">>, <<"A", "X">>, <<"C", "B">>}}
    \cup {[id |-> "w1", branch |-> [node |-> n, outputIndex |-> o, maxDepth |-> Null, includeUpstream |-> u]] :
            n \in {"A", "B", "X"}, o \in {0, 1}, u \in {Null, Some(1)}}
    \cup {[id |-> "w1", range |-> [from |-> f, to |-> t]] : f \in {"A", "C", "X"}, t \in {"A", "C", "X"}}
    \cup {[id |-> "w1"], [nodes |-> <<"A">>]}

FocusInputs ==
  {[workflow |-> RawWorkflowOf(es), args |-> a] : es \in SeqsUpTo(FocusEdges, MaxFocusEdges), a \in FocusArgs}

FocusWorkflow ==
  /\ output = Null
  /\ output' = Some([fn |-> "focus_workflow"] @@ focusWorkflow(input.args, apiGetWorkflow(engine, "w1").data[1]))
  /\ UNCHANGED <<engine, store, approval, auditLog, now, last, ncalls, faulty, input>>

InitFocus ==
  /\ input \in FocusInputs
  /\ engine = [w \in WfIds |-> IF w = "w1" THEN Some(input.workflow) ELSE Null]
  /\ store = EmptyStore
  /\ approval = [enabled |-> FALSE, pending |-> EmptyObj]
  /\ auditLog = <<>>
  /\ now = 0
  /\ last = NoCall
  /\ ncalls = 0
  /\ faulty = FALSE
  /\ output = Null

NextFocus == FocusWorkflow

SpecFocus == InitFocus /\ [][NextFocus]_vars

UnknownSelection ==
  "nodes" \in DOMAIN input.args
    /\ \E i \in 1..Len(input.args.nodes) : ~NodeExists(input.workflow, input.args.nodes[i])

\* the router exists and no connection leaves it on the requested output
ZeroHitBranch ==
  /\ {"id", "branch"} \subseteq DOMAIN input.args /\ "nodes" \notin DOMAIN input.args
  /\ NodeExists(input.workflow, input.args.branch.node)
  /\ ~\E c \in Incoming(input.workflow.connections) :
        c.from = input.args.branch.node /\ c.outputIndex = input.args.branch.outputIndex

\* both ends exist and no chain of connections leads from the start to the end
ZeroHitRange ==
  /\ {"id", "range"} \subseteq DOMAIN input.args
  /\ "nodes" \notin DOMAIN input.args /\ "branch" \notin DOMAIN input.args
  /\ NodeExists(input.workflow, input.args.range.from)
  /\ NodeExists(input.workflow, input.args.range.to)
  /\ input.args.range.to \notin
       ReachedFrom({input.args.range.from}, ConnectionEdges(input.workflow.connections))

\* C16: focus_workflow answers an explicit list with an unknown node name, a
\* branch whose router has no connection on the requested output, and a range
\* whose start does not reach its end, each with an error result.
C16_InvalidSelectionsFail ==
  (output # Null /\ output[1].fn = "focus_workflow"
     /\ "id" \in DOMAIN input.args /\ (UnknownSelection \/ ZeroHitBranch \/ ZeroHitRange))
    => output[1].result.kind = "error"

\* ------------------------------------------------------------------------
\* Input validation (validate.ts) in front of the handlers
\*   A JSON value is a record of its getJsonType t and its content; a
\*   schema is a record holding the keywords it declares; a text is the
\*   sequence of its parts.
\* ------------------------------------------------------------------------
MaxValidatedCalls == 2

JStr(s) == [t |-> "string", s |-> s]
JBool(b) == [t |-> "boolean", b |-> b]
JNum(n) == [t |-> "number", n |-> n]
JArr(items) == [t |-> "array", items |-> items]
JObj(fields) == [t |-> "object", fields |-> fields]
JNull == [t |-> "null"]

getJsonType(value) == value.t

\* args[field] === undefined || args[field] === null
Absent(obj, field) == field \notin DOMAIN obj \/ obj[field].t = "null"

ValidationError(field, message) == [field |-> field, message |-> message]

IndexText == <<"[0]", "[1]", "[2]">>

RECURSIVE RequiredErrors(_, _, _, _)
RequiredErrors(required, obj, prefix, message) ==
  IF required = <<>> THEN <<>>
  ELSE (IF Absent(obj, Head(required))
        THEN <<ValidationError(prefix \o <<Head(required)>>, <<message, Head(required)>>)>> ELSE <<>>)
       \o RequiredErrors(Tail(required), obj, prefix, message)

RECURSIVE validateValue(_, _, _)
RECURSIVE ItemErrors(_, _, _, _)
validateValue(field, value, schema) ==
  IF value.t = "null" THEN <<>>
  ELSE IF "type" \in DOMAIN schema /\ getJsonType(value) # schema.type
  THEN <<ValidationError(field, <<"Expected", schema.type, "got", getJsonType(value)>>)>>
  ELSE (IF "enum" \in DOMAIN schema /\ value \notin schema.enum
        THEN <<ValidationError(field, <<"Invalid value">>)>> ELSE <<>>)
       \o (IF value.t = "number" /\ "minimum" \in DOMAIN schema /\ value.n < schema.minimum
           THEN <<ValidationError(field, <<"below minimum">>)>> ELSE <<>>)
       \o (IF value.t = "number" /\ "maximum" \in DOMAIN schema /\ value.n > schema.maximum
           THEN <<ValidationError(field, <<"above maximum">>)>> ELSE <<>>)
       \o (IF value.t = "array" /\ "items" \in DOMAIN schema
           THEN ItemErrors(field, value.items, schema.items, 1) ELSE <<>>)

\* the loop over the items of an array; i counts from 1
ItemErrors(field, items, itemSchema, i) ==
  IF i > Len(items) THEN <<>>
  ELSE validateValue(field \o <<IndexText[i]>>, items[i], itemSchema)
       \o (IF "type" \in DOMAIN itemSchema /\ itemSchema.type = "object" /\ "required" \in DOMAIN itemSchema
              /\ items[i].t \in {"object", "array"}
           THEN RequiredErrors(itemSchema.required,
                               IF items[i].t = "object" THEN items[i].fields ELSE EmptyObj,
                               field \o <<IndexText[i]>>, "Missing required field")
           ELSE <<>>)
       \o ItemErrors(field, items, itemSchema, i + 1)

\* Object.entries(args) lists the keys in this order
ArgKeyOrder == <<"id", "confirm", "operations", "meta", "approve">>

RECURSIVE PropertyErrors(_, _, _)
PropertyErrors(keys, args, properties) ==
  IF keys = <<>> THEN <<>>
  ELSE (IF Head(keys) \in DOMAIN properties
        THEN validateValue(<<Head(keys)>>, args[Head(keys)], properties[Head(keys)]) ELSE <<>>)
       \o PropertyErrors(Tail(keys), args, properties)

validate(args, schema) ==
  (IF "required" \in DOMAIN schema
   THEN RequiredErrors(schema.required, args, <<>>, "Missing required parameter") ELSE <<>>)
  \o (IF "properties" \in DOMAIN schema
      THEN PropertyErrors(SeqFilter(ArgKeyOrder, DOMAIN args), args, schema.properties) ELSE <<>>)

RECURSIVE ErrorLines(_)
ErrorLines(errors) ==
  IF errors = <<>> THEN <<>>
  ELSE <<"  - ">> \o Head(errors).field \o <<": ">> \o Head(errors).message \o ErrorLines(Tail(errors))

\* Null, or the formatted message
validateArgs(args, schema, toolName) ==
  LET Formatted(errors) ==
        IF Len(errors) = 0 THEN Null
        ELSE Some(<<"Validation failed for", toolName>> \o ErrorLines(errors))
  IN Formatted(validate(args, schema))

OperationNames ==
  {"addNode", "removeNode", "updateNode", "addConnection", "removeConnection", "enable", "disable", "rename"}

TOOL_SCHEMAS ==
  [delete_workflow |->
     [type |-> "object",
      properties |-> [id |-> [type |-> "string"], confirm |-> [type |-> "boolean"],
                      approve |-> [type |-> "string"]],
      required |-> <<"id", "confirm">>],
   update_nodes |->
     [type |-> "object",
      properties |->
        [id |-> [type |-> "string"],
         operations |->
           [type |-> "array",
            items |-> [type |-> "object",
                       properties |-> [op |-> [type |-> "string",
                                                enum |-> {JStr(n) : n \in OperationNames}]],
                       required |-> <<"op">>]],
         approve |-> [type |-> "string"]],
      required |-> <<"id", "operations">>]]

\* the text of err(message) and of ok(data)
ErrText(message) == <<"Error: ">> \o message
Rendered(out) ==
  [out EXCEPT !.result.text = IF out.result.kind = "error" THEN ErrText(<<@>>) ELSE <<@>>]

\* the arguments as the handlers read them
RECURSIVE Untag(_)
Untag(value) ==
  CASE value.t = "object" -> [k \in DOMAIN value.fields |-> Untag(value.fields[k])]
    [] value.t = "array" -> [i \in 1..Len(value.items) |-> Untag(value.items[i])]
    [] value.t = "string" -> value.s
    [] value.t = "number" -> value.n
    [] value.t = "boolean" -> value.b
    [] OTHER -> "null"

ReadOperation(op) ==
  IF "op" \in DOMAIN op /\ op.op = "addNode"
  THEN [op |-> "addNode",
        node |-> [name |-> op.node.name, type |-> op.node.type,
                  params |-> IF "params" \in DOMAIN op.node THEN Some(op.node.params) ELSE Null,
                  disabled |-> FALSE]]
  ELSE op

ReadArgs(args) ==
  [k \in DOMAIN args |->
     IF k = "operations" /\ args[k].t = "array"
     THEN [i \in 1..Len(args[k].items) |->
             IF args[k].items[i].t = "object" THEN ReadOperation(Untag(args[k].items[i]))
             ELSE Untag(args[k].items[i])]
     ELSE Untag(args[k])]

\* handle up to the switch: a validation error is returned without entering
\* the handler, whose outcome is handled
Validated(tool, args, handled) ==
  LET Short(validationError) ==
        IF validationError # Null
        THEN Outcome(engine, store, ResultErr(ErrText(validationError[1])), Null, <<>>, Null)
        ELSE Rendered(handled)
  IN Short(validateArgs(args, TOOL_SCHEMAS[tool], tool))

WithKey(obj, key, opt) == IF opt = Null THEN obj ELSE ObjSet(obj, key, opt[1])

DeleteCalls ==
  {[tool |-> "delete_workflow",
    args |-> WithKey(WithKey(WithKey(EmptyObj, "id", id), "confirm", c), "meta", m)] :
     id \in {Null, Some(JStr("w1")), Some(JNum(1))},
     c \in {Null, Some(JBool(TRUE)), Some(JBool(FALSE)), Some(JStr("true")), Some(JNum(1)), Some(JNull)},
     m \in {Null, Some(JStr("m"))}}

NamedOp(op, name) == JObj([op |-> JStr(op), name |-> JStr(name)])

OperationsArgs ==
  { JArr(<<NamedOp("removeNode", "B")>>),
    JArr(<<NamedOp("disable", "B")>>),
    JArr(<<NamedOp("merge", "B")>>),
    JArr(<<JObj([name |-> JStr("B")])>>),
    JArr(<<JStr("removeNode")>>),
    JStr("removeNode"),
    JArr(<<NamedOp("disable", "B"),
           JObj([op |-> JStr("addNode"), node |-> JObj([name |-> JStr("B"), type |-> JStr("text")])])>>),
    JArr(<<NamedOp("disable", "B"),
           JObj([op |-> JStr("rename"), name |-> JStr("A"), newName |-> JStr("B")])>>),
    JArr(<<NamedOp("disable", "B"), NamedOp("enable", "X")>>),
    JArr(<<NamedOp("disable", "B"), NamedOp("removeNode", "X")>>),
    JArr(<<NamedOp("merge", "B"), NamedOp("disable", "B")>>),
    JArr(<<NamedOp("disable", "B"), NamedOp("", "B"), NamedOp("removeNode", "B")>>),
    JArr(<<JObj([op |-> JStr("merge")]), NamedOp("removeNode", "X")>>),
    JArr(<<NamedOp("removeNode", "X"), NamedOp("merge", "B")>>),
    JArr(<<NamedOp("merge", "B"),
           JObj([op |-> JStr("rename"), name |-> JStr("B"), newName |-> JStr("A")])>>) }

UpdateNodesCalls ==
  {[tool |-> "update_nodes", args |-> WithKey(WithKey(EmptyObj, "id", Some(JStr("w1"))), "operations", ops)] :
     ops \in {Null} \cup {Some(o) : o \in OperationsArgs}}

HandleDeleteWorkflow ==
  /\ ncalls < MaxValidatedCalls
  /\ input.tool = "delete_workflow"
  /\ Handle("delete_workflow", ReadArgs(input.args), 0, TRUE,
            Validated("delete_workflow", input.args,
                      deleteWorkflow(engine, store, ReadArgs(input.args), TRUE)))

HandleUpdateNodes ==
  /\ ncalls < MaxValidatedCalls
  /\ input.tool = "update_nodes"
  /\ Handle("update_nodes", ReadArgs(input.args), 0, TRUE,
            Validated("update_nodes", input.args,
                      updateNodes(engine, store, ReadArgs(input.args), TRUE)))

InitValidated ==
  /\ engine = [w \in WfIds |-> IF w = "w1" THEN Some(InitialWorkflow) ELSE Null]
  /\ store = EmptyStore
  /\ approval = [enabled |-> FALSE, pending |-> EmptyObj]
  /\ auditLog = <<>>
  /\ now = 0
  /\ last = NoCall
  /\ ncalls = 0
  /\ faulty = FALSE
  /\ input \in DeleteCalls \cup UpdateNodesCalls
  /\ output = Null

NextValidated == HandleDeleteWorkflow \/ HandleUpdateNodes

SpecValidated == InitValidated /\ [][NextValidated]_vars

\* what satisfying a declared schema means, keyword by keyword; null counts
\* as absent, as it does for the validator
RECURSIVE Satisfies(_, _)
Satisfies(value, schema) ==
  /\ "type" \in DOMAIN schema => value.t = schema.type
  /\ "enum" \in DOMAIN schema => value \in schema.enum
  /\ (value.t = "number" /\ "minimum" \in DOMAIN schema) => value.n >= schema.minimum
  /\ (value.t = "number" /\ "maximum" \in DOMAIN schema) => value.n <= schema.maximum
  /\ (value.t = "array" /\ "items" \in DOMAIN schema) =>
        \A i \in 1..Len(value.items) : Satisfies(value.items[i], schema.items)
  /\ (value.t = "object" /\ "required" \in DOMAIN schema) =>
        \A r \in Range(schema.required) : ~Absent(value.fields, r)
  /\ (value.t = "object" /\ "properties" \in DOMAIN schema) =>
        \A k \in DOMAIN value.fields \cap DOMAIN schema.properties :
           value.fields[k].t = "null" \/ Satisfies(value.fields[k], schema.properties[k])

Called == last.tool # ""

NoSideEffect == last.requests = <<>> /\ last.saved = Null

\* C19: a call whose arguments do not satisfy the tool's declared schema
\* returns a text beginning with 'Validation failed for' and enters no
\* handler (no engine request, no snapshot); a field the schema does not
\* declare changes nothing in what validateArgs returns.
C19_InvalidArgsShortCircuit ==
  /\ (Called /\ ~Satisfies(JObj(input.args), TOOL_SCHEMAS[input.tool])) =>
        /\ last.result.text[1] = "Validation failed for"
        /\ NoSideEffect
  /\ Called =>
        validateArgs(input.args, TOOL_SCHEMAS[input.tool], input.tool)
          = validateArgs(ObjDel(input.args, "meta"), TOOL_SCHEMAS[input.tool], input.tool)

Sent(method) == \E i \in 1..Len(last.requests) : last.requests[i].method = method

\* an addNode of a name in use, a rename to a name in use or an operation on
\* a missing node, the names following the operations that precede it
RECURSIVE BatchFails(_, _)
BatchFails(operations, names) ==
  IF operations = <<>> THEN FALSE
  ELSE LET op == Head(operations) IN
       CASE op.op = "addNode" ->
              op.node.name \in names \/ BatchFails(Tail(operations), names \cup {op.node.name})
         [] op.op = "rename" ->
              \/ op.name \notin names
              \/ op.newName \in names
              \/ BatchFails(Tail(operations), (names \ {op.name}) \cup {op.newName})
         [] op.op = "removeNode" ->
              op.name \notin names \/ BatchFails(Tail(operations), names \ {op.name})
         [] op.op \in {"updateNode", "enable", "disable"} ->
              op.name \notin names \/ BatchFails(Tail(operations), names)
         [] OTHER -> BatchFails(Tail(operations), names)

FailingBatchCalled ==
  /\ input.tool = "update_nodes"
  /\ ncalls' = ncalls + 1
  /\ validateArgs(input.args, TOOL_SCHEMAS["update_nodes"], "update_nodes") = Null
  /\ engine["w1"] # Null
  /\ BatchFails(ReadArgs(input.args).operations, Range(NodeNamesOf(engine["w1"][1].nodes)))

ConfirmIsTrue == "confirm" \in DOMAIN input.args /\ input.args.confirm = JBool(TRUE)

\* C18: delete_workflow sends DELETE only when confirm is exactly true; with
\* confirm missing, false or of any other value the call returns an error,
\* sends nothing to the engine and saves no snapshot.
C18_DeleteOnlyWhenConfirmed ==
  last.tool = "delete_workflow" =>
     /\ Sent("DELETE") => ConfirmIsTrue
     /\ ~ConfirmIsTrue => (last.result.kind = "error" /\ NoSideEffect)

C18_Witness ==
  /\ last.tool = "delete_workflow"
  /\ ConfirmIsTrue
  /\ Sent("DELETE")
  /\ engine["w1"] = Null

\* ---------------------------------------------------------------------------
\* Execution run data and input hints (focus.ts: extractExecutionRunData,
\* getInputHintForNode, and the injection of buildFocusedView)
\* ---------------------------------------------------------------------------

MaxOutputs == 2
MaxItems == 2

\* a Set<string> in insertion order: add keeps the first occurrence
SetAdd(keys, key) == IF key \in Range(keys) THEN keys ELSE Append(keys, key)

RECURSIVE SetAddAll(_, _)
SetAddAll(keys, more) ==
  IF more = <<>> THEN keys ELSE SetAddAll(SetAdd(keys, Head(more)), Tail(more))

\* the keys of item.json of every item, in the order they are first seen
RECURSIVE ItemKeys(_, _)
ItemKeys(allKeys, items) ==
  IF items = <<>> THEN allKeys
  ELSE ItemKeys(IF Head(items).json = Null THEN allKeys
                ELSE SetAddAll(allKeys, Head(items).json[1]),
                Tail(items))

\* the entry of one node: nothing for no runs, the error for a failed last
\* run, otherwise the keys of the items of the first output of the last run
NodeRunData(runs) ==
  IF runs = <<>> THEN Null
  ELSE LET lastRun == runs[Len(runs)] IN
    IF lastRun.error # Null
    THEN Some([outputKeys |-> <<>>, itemCount |-> 0, error |-> lastRun.error])
    ELSE IF lastRun.main = <<>> THEN Null
    ELSE LET items == lastRun.main[1] IN
      IF items = <<>> THEN Null
      ELSE LET keysArr == ItemKeys(<<>>, items) IN
        Some([outputKeys |-> IF Len(keysArr) > 20 THEN SubSeq(keysArr, 1, 20) ELSE keysArr,
              itemCount |-> Len(items),
              error |-> Null])

extractExecutionRunData(executionData) ==
  IF executionData = Null THEN EmptyObj
  ELSE LET runData == executionData[1].resultData.runData
           kept == {n \in DOMAIN runData : NodeRunData(runData[n]) # Null}
       IN [n \in kept |-> NodeRunData(runData[n])[1]]

RECURSIVE UpstreamKeys(_, _, _)
UpstreamKeys(allKeys, upstreamNames, runDataMap) ==
  IF upstreamNames = <<>> THEN allKeys
  ELSE LET upstream == Head(upstreamNames) IN
    UpstreamKeys(IF upstream \in DOMAIN runDataMap
                 THEN SetAddAll(allKeys, runDataMap[upstream].outputKeys)
                 ELSE allKeys,
                 Tail(upstreamNames), runDataMap)

getInputHintForNode(nodeName, flow, runDataMap) ==
  LET upstreamNames == [i \in 1..Len(SelectSeq(flow, LAMBDA c : c.to = nodeName)) |->
                          SelectSeq(flow, LAMBDA c : c.to = nodeName)[i].from]
      allKeys == UpstreamKeys(<<>>, upstreamNames, runDataMap)
  IN IF upstreamNames = <<>> THEN Null
     ELSE IF allKeys = <<>> THEN Null ELSE Some(allKeys)

\* the items an output can hold: json objects over three keys, "x" shared
HintJsons == {<<"a">>, <<"b">>, <<"a", "x">>, <<"x", "b">>}

HintItems == {[json |-> Some(j)] : j \in HintJsons} \cup {[json |-> Null]}

HintOutputs == SeqsUpTo(HintItems, MaxItems)

HintMains == SeqsUpTo(HintOutputs, MaxOutputs)

HintRuns ==
  {<<[error |-> Null, main |-> m]>> : m \in HintMains}
    \cup {<<[error |-> Some("boom"), main |-> <<>>], [error |-> Null, main |-> m]>> : m \in HintMains}
    \cup {<<[error |-> Null, main |-> <<<<[json |-> Some(<<"a">>)]>>>>], [error |-> Some("boom"), main |-> <<>>]>>,
          <<>>}

\* the connections into the focused node "T": from the branching node "IF"
\* through its first or its second output, with or without a second
\* upstream "U"
HintFlows ==
  {<<[from |-> "IF", to |-> "T", outputIndex |-> o]>> : o \in {Null, Some(1)}}
    \cup {<<[from |-> "IF", to |-> "T", outputIndex |-> o],
            [from |-> "U", to |-> "T", outputIndex |-> Null]>> : o \in {Null, Some(1)}}
    \cup {<<[from |-> "T", to |-> "U", outputIndex |-> Null]>>}

HintExecutions ==
  {Some([resultData |-> [runData |-> ("IF" :> r)]]) : r \in HintRuns}
    \cup {Some([resultData |-> [runData |-> ("IF" :> r) @@ ("U" :> <<[error |-> Null, main |-> <<<<[json |-> Some(<<"u">>)]>>>>]>>)]]) : r \in HintRuns}

HintInputs == {[flow |-> f, execution |-> e] : f \in HintFlows, e \in HintExecutions}

\* buildFocusedView on the focused node "T": the hint is attached only
\* when there is one
InputHint ==
  /\ output = Null
  /\ LET runDataMap == extractExecutionRunData(input.execution)
         hint == getInputHintForNode("T", input.flow, runDataMap)
     IN output' = Some([fn |-> "inputHint", name |-> "T", inputHint |-> hint])
  /\ UNCHANGED <<engine, store, approval, auditLog, now, last, ncalls, faulty, input>>

InitHint ==
  /\ engine = [w \in WfIds |-> Null]
  /\ store = EmptyStore
  /\ approval = [enabled |-> FALSE, pending |-> EmptyObj]
  /\ auditLog = <<>>
  /\ now = 0
  /\ last = NoCall
  /\ ncalls = 0
  /\ faulty = FALSE
  /\ input \in HintInputs
  /\ output = Null

NextHint == InputHint

SpecHint == InitHint /\ [][NextHint]_vars

\* every key of some item of the output
KeysOfOutput(items) == Range(ItemKeys(<<>>, items))

\* the last run of "IF" succeeded with two outputs [A, B]
BranchingRun ==
  /\ input.execution[1].resultData.runData["IF"] # <<>>
  /\ LET runs == input.execution[1].resultData.runData["IF"] IN
       /\ runs[Len(runs)].error = Null
       /\ Len(runs[Len(runs)].main) = 2

\* "T" has exactly one incoming connection, from output index 1 of "IF"
ViaSecondOutput == input.flow = <<[from |-> "IF", to |-> "T", outputIndex |-> Some(1)]>>

HintKeys == IF output[1].inputHint = Null THEN {} ELSE Range(output[1].inputHint[1])

\* C20: when the last run of a branching node recorded the outputs [A, B],
\* the inputHint of a focused node connected through output index 1 holds
\* every key of B and no key that occurs only in A
C20_HintFollowsOutputIndex ==
  (output # Null /\ BranchingRun /\ ViaSecondOutput) =>
    LET runs == input.execution[1].resultData.runData["IF"]
        A == KeysOfOutput(runs[Len(runs)].main[1])
        B == KeysOfOutput(runs[Len(runs)].main[2])
    IN /\ B \subseteq HintKeys
       /\ (A \ B) \cap HintKeys = {}

\* ---------------------------------------------------------------------------
\* expand_focus (handlers.ts: expandFocus)
\* ---------------------------------------------------------------------------

MaxExpandEdges == 2
MaxExpandDepth == 2

\* the outcome of expand_focus, the names handed to buildFocusedView and the
\* sets the two searches returned
ExpandResult(result, focused, upstream, excludeUp, downstream, excludeDown) ==
  [result |-> result, focused |-> focused, upstream |-> upstream, excludeUp |-> excludeUp,
   downstream |-> downstream, excludeDown |-> excludeDown]

\* args.expandUpstream / args.expandDownstream are used when truthy
Truthy(args, key) == key \in DOMAIN args /\ args[key] # 0

expandFocus(args, raw) ==
  IF "id" \notin DOMAIN args THEN ExpandResult(ResultErr("Missing workflow ID"), <<>>, {}, {}, {}, {})
  ELSE IF "currentFocus" \notin DOMAIN args \/ Len(args.currentFocus) = 0
  THEN ExpandResult(ResultErr("Missing currentFocus"), <<>>, {}, {}, {}, {})
  ELSE LET adj == buildAdjacency(simplifyConnections(raw.connections))
           current == SetAddAll(<<>>, args.currentFocus)
           Downstream(expanded, upstream, excludeUp) ==
             IF Truthy(args, "expandDownstream")
             THEN LET downstream == bfsForward(expanded, adj.forward, Some(args.expandDownstream),
                                               Range(expanded))
                  IN ExpandResult(ResultOk("focused"),
                                  SetAddAll(expanded, SeqFilter(NameOrder, downstream)),
                                  upstream, excludeUp, downstream, Range(expanded))
             ELSE ExpandResult(ResultOk("focused"), expanded, upstream, excludeUp, {}, {})
           Upstream(expanded) ==
             IF Truthy(args, "expandUpstream")
             THEN LET upstream == bfsBackward(expanded, adj.reverse, Some(args.expandUpstream),
                                              Range(expanded))
                  IN Downstream(SetAddAll(expanded, SeqFilter(NameOrder, upstream)), upstream,
                                Range(expanded))
             ELSE Downstream(expanded, {}, {})
       IN IF "addNodes" \in DOMAIN args /\ args.addNodes # <<>>
          THEN IF \E i \in 1..Len(args.addNodes) : ~NodeExists(raw, args.addNodes[i])
               THEN ExpandResult(ResultErr("Node not found"), <<>>, {}, {}, {}, {})
               ELSE Upstream(SetAddAll(current, args.addNodes))
          ELSE Upstream(current)

ExpandEdges ==
  {[from |-> f, kind |-> "main", outputIndex |-> 0, node |-> t, index |-> 0] :
     f \in {"A", "B", "C"}, t \in {"A", "B", "C"}}

ExpandDepths(key) == {EmptyObj} \cup {(key :> d) : d \in 0..MaxExpandDepth}

ExpandArgs ==
  {[id |-> "w1", currentFocus |-> cf] @@ add @@ up @@ down :
     cf \in {<<>>, <<"A">>, <<"B">>, <<"C">>, <<"A", "B">>},
     add \in {EmptyObj, [addNodes |-> <<"C">>], [addNodes |-> <<"X">>]},
     up \in ExpandDepths("expandUpstream"), down \in ExpandDepths("expandDownstream")}
    \cup {[currentFocus |-> <<"A">>], [id |-> "w1"]}

ExpandInputs ==
  {[workflow |-> RawWorkflowOf(es), args |-> a] :
     es \in SeqsUpTo(ExpandEdges, MaxExpandEdges), a \in ExpandArgs}

ExpandFocus ==
  /\ output = Null
  /\ output' = Some([fn |-> "expand_focus"] @@ expandFocus(input.args, apiGetWorkflow(engine, "w1").data[1]))
  /\ UNCHANGED <<engine, store, approval, auditLog, now, last, ncalls, faulty, input>>

InitExpand ==
  /\ input \in ExpandInputs
  /\ engine = [w \in WfIds |-> IF w = "w1" THEN Some(input.workflow) ELSE Null]
  /\ store = EmptyStore
  /\ approval = [enabled |-> FALSE, pending |-> EmptyObj]
  /\ auditLog = <<>>
  /\ now = 0
  /\ last = NoCall
  /\ ncalls = 0
  /\ faulty = FALSE
  /\ output = Null

NextExpand == ExpandFocus

SpecExpand == InitExpand /\ [][NextExpand]_vars

\* the names reached from set along at most d connections
RECURSIVE WithinHops(_, _, _)
WithinHops(set, edges, d) ==
  IF d = 0 THEN set
  ELSE WithinHops(set \cup {e[2] : e \in {x \in edges : x[1] \in set}}, edges, d - 1)

ExpandEdgeSet == ConnectionEdges(input.workflow.connections)

ExpandedOk == output # Null /\ output[1].result.kind = "ok"

\* C21: with expandUpstream = d the focused set holds currentFocus and every
\* node that reaches a currentFocus node in at most d hops, with
\* expandDownstream = d every node reached from currentFocus in at most d
\* hops; neither search returns a node of its exclude set
C21_ExpandReachesWithinDepth ==
  ExpandedOk =>
    /\ Range(input.args.currentFocus) \subseteq Range(output[1].focused)
    /\ Truthy(input.args, "expandUpstream") =>
         WithinHops(Range(input.args.currentFocus), Reversed(ExpandEdgeSet), input.args.expandUpstream)
           \subseteq Range(output[1].focused)
    /\ Truthy(input.args, "expandDownstream") =>
         WithinHops(Range(input.args.currentFocus), ExpandEdgeSet, input.args.expandDownstream)
           \subseteq Range(output[1].focused)
    /\ output[1].upstream \cap output[1].excludeUp = {}
    /\ output[1].downstream \cap output[1].excludeDown = {}

\* ---------------------------------------------------------------------------
\* Input indices of reconstructed connections
\* ---------------------------------------------------------------------------

LiteKind(conn) == OrElse(conn.type, "main")

\* the index the raw map holds for the i-th lite connection: connections are
\* appended to connections[from][type][outputIndex] in list order
AssignedIndex(flow, connections, i) ==
  LET same == {j \in 1..i : /\ flow[j].from = flow[i].from
                            /\ LiteKind(flow[j]) = LiteKind(flow[i])
                            /\ OrElse(flow[j].outputIndex, 0) = OrElse(flow[i].outputIndex, 0)}
  IN connections[flow[i].from][LiteKind(flow[i])][OrElse(flow[i].outputIndex, 0) + 1][Cardinality(same)].index

\* the earlier connections of the same (target, output kind) pair
EarlierOfPair(flow, i) ==
  {j \in 1..(i - 1) : flow[j].to = flow[i].to /\ LiteKind(flow[j]) = LiteKind(flow[i])}

SetMax(S) == CHOOSE x \in S : \A y \in S : y <= x

\* the explicit index, or the high-water mark of the pair
RECURSIVE ExpectedIndex(_, _)
ExpectedIndex(flow, i) ==
  IF flow[i].inputIndex # Null THEN flow[i].inputIndex[1]
  ELSE IF EarlierOfPair(flow, i) = {} THEN 0
  ELSE 1 + SetMax({ExpectedIndex(flow, j) : j \in EarlierOfPair(flow, i)})

Reconstructed == output # Null /\ output[1].fn = "reconstructWorkflow"

\* C22: every lite connection with an inputIndex gets that index, every
\* connection without one gets the high-water mark of its (target, output
\* kind) pair: 0 for a new pair, otherwise one more than the largest index
\* given so far to the pair
C22_ExplicitKeptImplicitAtHighWater ==
  Reconstructed =>
    \A i \in 1..Len(input.flow) :
       AssignedIndex(input.flow, output[1].connections, i) = ExpectedIndex(input.flow, i)

\* the two connections into Merge of A -> IF, IF -> B, IF -> Merge, B -> Merge
\* got the indices 0 and 1
C22_Witness ==
  /\ Reconstructed
  /\ Len(input.flow) = 4
  /\ input.flow[3].to = "Merge" /\ input.flow[3].inputIndex = Null
  /\ input.flow[4].to = "Merge" /\ input.flow[4].inputIndex = Null
  /\ AssignedIndex(input.flow, output[1].connections, 3) = 0
  /\ AssignedIndex(input.flow, output[1].connections, 4) = 1

\* ---------------------------------------------------------------------------
\* Layers on acyclic graphs
\* ---------------------------------------------------------------------------

\* the connections between two nodes of the list
KnownEdges == {<<c.from, c.to>> : c \in {x \in Range(input.flow) :
                                           x.from \in Range(input.nodes) /\ x.to \in Range(input.nodes)}}

\* the length of the longest path from a root to name
RECURSIVE LongestPath(_, _)
LongestPath(name, edges) ==
  LET preds == {e[1] : e \in {x \in edges : x[2] = name}} IN
  IF preds = {} THEN 0 ELSE 1 + SetMax({LongestPath(p, edges) : p \in preds})

\* the layer a position stands for: x = BASE_X + layer * SPACING_X
LayerAt(position) == (position[1][1] - BASE_X) \div SPACING_X

LaidOutAcyclic ==
  /\ output # Null /\ output[1].fn = "autoLayout"
  /\ Acyclic(KnownEdges)

\* C23: on an acyclic graph the layer pass is never cut, every root has layer
\* 0 and every other node the length of its longest path from a root, and
\* every connection leads to a strictly greater x
C23_LayersAreLongestPaths ==
  LaidOutAcyclic =>
    /\ ~output[1].cut
    /\ \A name \in Range(input.nodes) :
         /\ output[1].positions[name][1] # Null
         /\ output[1].positions[name][1][1] = BASE_X + LayerAt(output[1].positions[name]) * SPACING_X
         /\ LayerAt(output[1].positions[name]) = LongestPath(name, KnownEdges)
    /\ \A e \in KnownEdges :
         output[1].positions[e[2]][1][1] > output[1].positions[e[1]][1][1]

\* A -> B -> C with the shortcut A -> C: C is first seen at layer 1 and ends
\* at layer 2
C23_Witness ==
  /\ LaidOutAcyclic
  /\ input.nodes = <<"A", "B", "C">>
  /\ KnownEdges = {<<"A", "B">>, <<"B", "C">>, <<"A", "C">>}
  /\ input.flow[1].to = "C"
  /\ LayerAt(output[1].positions["C"]) = 2

\* ---------------------------------------------------------------------------
\* update_nodes with node operations only: the state the operation loop
\* leaves, next to the outcome of the whole call
\* ---------------------------------------------------------------------------

MaxEditOps == 3

EditEdge(from, to, outputIndex) ==
  [from |-> from, kind |-> "main", outputIndex |-> outputIndex, node |-> to, index |-> 0]

\* fetched workflows with the nodes A, B, C: a chain, a branch and a merge
EditWorkflows ==
  {RawWorkflowOf(es) : es \in {<<EditEdge("A", "B", 0), EditEdge("B", "C", 0)>>,
                               <<EditEdge("A", "B", 0), EditEdge("A", "C", 1)>>,
                               <<EditEdge("A", "C", 0), EditEdge("B", "C", 0)>>}}

EditOps ==
  {[op |-> "addNode", node |-> [name |-> n, type |-> "text", params |-> Some([text |-> TxtPlain]),
                                disabled |-> FALSE]] : n \in {"B", "X"}}
    \cup {[op |-> "removeNode", name |-> n] : n \in {"A", "B", "C"}}
    \cup {[op |-> "rename", name |-> "A", newName |-> "X"], [op |-> "rename", name |-> "B", newName |-> "X"],
          [op |-> "rename", name |-> "B", newName |-> "C"], [op |-> "rename", name |-> "X", newName |-> "B"]}
    \cup {[op |-> "disable", name |-> "B"], [op |-> "enable", name |-> "B"],
          [op |-> "updateNode", name |-> "B", params |-> [text |-> TxtPlain]]}

EditInputs ==
  {[workflow |-> w, args |-> [id |-> "w1", operations |-> ops]] :
     w \in EditWorkflows, ops \in SeqsUpTo(EditOps, MaxEditOps)}

\* the whole call, and the nodes and connections the loop over the
\* operations ended with
EditNodes ==
  /\ output = Null
  /\ ncalls' = ncalls + 1
  /\ Executed("update_nodes", input.args, approval, TRUE, updateNodes(engine, store, input.args, TRUE))
  /\ output' = Some([fn |-> "update_nodes",
                     virtual |-> ApplyOperations([nodes |-> engine["w1"][1].nodes,
                                                  connections |-> engine["w1"][1].connections,
                                                  results |-> <<>>, error |-> Null],
                                                 input.args.operations)])
  /\ UNCHANGED <<now, faulty, input>>

InitEdits ==
  /\ input \in EditInputs
  /\ engine = [w \in WfIds |-> IF w = "w1" THEN Some(input.workflow) ELSE Null]
  /\ store = EmptyStore
  /\ approval = [enabled |-> FALSE, pending |-> EmptyObj]
  /\ auditLog = <<>>
  /\ now = 0
  /\ last = NoCall
  /\ ncalls = 0
  /\ faulty = FALSE
  /\ output = Null

NextEdits == EditNodes

SpecEdits == InitEdits /\ [][NextEdits]_vars

\* names are unique, and every source key and every target is a node
WellFormed(nodes, connections) ==
  /\ \A i, j \in 1..Len(nodes) : nodes[i].name = nodes[j].name => i = j
  /\ DOMAIN connections \subseteq Range(NodeNamesOf(nodes))
  /\ \A e \in ConnectionEdges(connections) : e[2] \in Range(NodeNamesOf(nodes))

\* the names a batch removed or renamed away and did not bring back
RECURSIVE GoneNames(_, _)
GoneNames(operations, gone) ==
  IF operations = <<>> THEN gone
  ELSE LET op == Head(operations) IN
       GoneNames(Tail(operations),
                 CASE op.op = "removeNode" -> gone \cup {op.name}
                   [] op.op = "rename" -> (gone \cup {op.name}) \ {op.newName}
                   [] op.op = "addNode" -> gone \ {op.node.name}
                   [] OTHER -> gone)

EditsCompleted == output # Null /\ output[1].fn = "update_nodes" /\ output[1].virtual.error = Null
                    /\ input.args.operations # <<>>

\* C24: after a batch of addNode, removeNode, rename, enable, disable and
\* updateNode operations that completes without error on a workflow with
\* unique names and no dangling connection, names are still unique and no
\* source key and no target names a removed node or the old name of a
\* renamed node
C24_NodeEditsKeepReferences ==
  EditsCompleted =>
    /\ WellFormed(output[1].virtual.nodes, output[1].virtual.connections)
    /\ LET gone == GoneNames(input.args.operations, {}) IN
         /\ DOMAIN output[1].virtual.connections \cap gone = {}
         /\ \A e \in ConnectionEdges(output[1].virtual.connections) : e[2] \notin gone
    /\ Sent("PUT") =>
         /\ engine["w1"][1].nodes = output[1].virtual.nodes
         /\ engine["w1"][1].connections = output[1].virtual.connections

\* B was renamed to X and A removed: the PUT went out with X -> C only
C24_Witness ==
  /\ EditsCompleted
  /\ input.args.operations = <<[op |-> "rename", name |-> "B", newName |-> "X"], [op |-> "removeNode", name |-> "A"]>>
  /\ Sent("PUT")
  /\ ConnectionEdges(engine["w1"][1].connections) = {<<"X", "C">>}

\* ---------------------------------------------------------------------------
\* Ranges: findNodesBetween on a lite flow, discoverRange on a raw workflow
\* ---------------------------------------------------------------------------

\* A -> B, A -> C, B -> D, C -> D, D -> E, and two connections that close
\* cycles when present
BetweenEdgeOrder ==
  <<LiteConn("A", "B"), LiteConn("A", "C"), LiteConn("B", "D"), LiteConn("C", "D"),
    LiteConn("D", "E"), LiteConn("E", "A"), LiteConn("D", "B")>>

BetweenNames == {"A", "B", "C", "D", "E", "X"}

BetweenInputs ==
  {[kind |-> "flow", flow |-> SeqFilter(BetweenEdgeOrder, kept), from |-> f, to |-> t] :
     kept \in SUBSET Range(BetweenEdgeOrder), f \in BetweenNames, t \in BetweenNames}
    \cup {[kind |-> "raw", workflow |-> RawWorkflowOf(es), from |-> f, to |-> t] :
            es \in SeqsUpTo(FocusEdges, MaxFocusEdges), f \in {"A", "B", "C"}, t \in {"A", "B", "C"}}

FindNodesBetween ==
  /\ output = Null
  /\ input.kind = "flow"
  /\ output' = Some([fn |-> "findNodesBetween",
                     between |-> findNodesBetween(input.from, input.to, input.flow)])
  /\ UNCHANGED <<engine, store, approval, auditLog, now, last, ncalls, faulty, input>>

DiscoverRange ==
  /\ output = Null
  /\ input.kind = "raw"
  /\ output' = Some([fn |-> "discoverRange",
                     between |-> Range(discoverRange(input.workflow, input.from, input.to))])
  /\ UNCHANGED <<engine, store, approval, auditLog, now, last, ncalls, faulty, input>>

InitBetween ==
  /\ engine = [w \in WfIds |-> Null]
  /\ store = EmptyStore
  /\ approval = [enabled |-> FALSE, pending |-> EmptyObj]
  /\ auditLog = <<>>
  /\ now = 0
  /\ last = NoCall
  /\ ncalls = 0
  /\ faulty = FALSE
  /\ input \in BetweenInputs
  /\ output = Null

NextBetween == FindNodesBetween \/ DiscoverRange

SpecBetween == InitBetween /\ [][NextBetween]_vars

BetweenEdges ==
  IF input.kind = "flow" THEN EdgesOf(input.flow) ELSE ConnectionEdges(input.workflow.connections)

\* C25: the range is the set of nodes forward-reachable from 'from' and
\* backward-reachable from 'to', plus the two endpoints; it is just the two
\* endpoints when 'from' does not reach 'to'
C25_RangeIsIntersection ==
  output # Null =>
    /\ output[1].between =
         (ReachedFrom({input.from}, BetweenEdges) \cap ReachedFrom({input.to}, Reversed(BetweenEdges)))
           \cup {input.from, input.to}
    /\ input.to \notin ReachedFrom({input.from}, BetweenEdges) =>
         output[1].between = {input.from, input.to}

\* A -> B, A -> C, B -> D, C -> D, D -> E: the range from A to D is {A, B, C, D}
C25_Witness ==
  /\ output # Null
  /\ input.kind = "flow"
  /\ input.flow = SubSeq(BetweenEdgeOrder, 1, 5)
  /\ input.from = "A" /\ input.to = "D"
  /\ output[1].between = {"A", "B", "C", "D"}

\* ---------------------------------------------------------------------------
\* What the three writing tools send: one call on valid and on broken
\* inputs, with the virtual state preflight was given
\* ---------------------------------------------------------------------------

MaxGuardConns == 2

GuardNodeLists ==
  {<<LiteTrigger, LiteText("B", TxtPlain)>>,
   <<LiteTrigger, LiteText("B", TxtPlain), LiteText("B", TxtPlain)>>,
   <<LiteTrigger, [LiteText("B", TxtPlain) EXCEPT !.disabled = TRUE], LiteText("C", TxtPlain)>>,
   <<LiteTrigger, LiteText("B", TxtPlain), [LiteText("B", TxtPlain) EXCEPT !.disabled = TRUE]>>}

GuardFlows ==
  SeqsUpTo({LiteConn("A", "B"), LiteConn("A", "X"), LiteConn("X", "B"), LiteConn("B", "C")}, MaxGuardConns)

GuardOps ==
  {[op |-> "addConnection", from |-> f, to |-> t, type |-> Null, outputIndex |-> o, inputIndex |-> Null] :
     f \in {"A", "X"}, t \in {"B", "X"}, o \in {Null, Some(1)}}
    \cup {[op |-> "removeNode", name |-> "B"], [op |-> "rename", name |-> "B", newName |-> "X"],
          [op |-> "addNode", node |-> [name |-> "X", type |-> "text", params |-> Some([text |-> TxtPlain]),
                                       disabled |-> TRUE]]}

\* the workflow the engine holds: a sound one, one with a connection to a
\* node that does not exist, one with a name used twice
GuardWorkflows ==
  {InitialWorkflow,
   [InitialWorkflow EXCEPT !.connections =
      ReconstructConnections(<<LiteConn("A", "B"), LiteConn("B", "X")>>, EmptyObj, EmptyObj)],
   [InitialWorkflow EXCEPT !.nodes = Append(@, RawNode("B", TypeText, TxtPlain))]}

GuardCalls ==
  {[tool |-> "create_workflow", args |-> [name |-> "W", nodes |-> ns, flow |-> f]] :
     ns \in GuardNodeLists, f \in GuardFlows}
    \cup {[tool |-> "update_workflow", args |-> [id |-> "w1", nodes |-> ns, flow |-> f]] :
            ns \in GuardNodeLists, f \in GuardFlows}
    \cup {[tool |-> "update_nodes", args |-> [id |-> "w1", operations |-> ops]] :
            ops \in SeqsUpTo(GuardOps, MaxGuardConns) \ {<<>>}}

GuardInputs == {[workflow |-> w, call |-> c] : w \in GuardWorkflows, c \in GuardCalls}

\* one call of a tool; virtual is the state the handler hands to
\* buildVirtualState
GuardedCall(tool, handled, virtual) ==
  /\ output = Null
  /\ input.call.tool = tool
  /\ ncalls' = ncalls + 1
  /\ Executed(tool, input.call.args, approval, TRUE, handled)
  /\ output' = Some([fn |-> tool, virtual |-> virtual])
  /\ UNCHANGED <<now, faulty, input>>

GuardedCreate ==
  GuardedCall("create_workflow", createWorkflow(engine, store, input.call.args),
              reconstructWorkflow(LiteOfArgs(input.call.args, input.call.args.name, input.call.args.nodes,
                                             input.call.args.flow), Null))

GuardedUpdateWorkflow ==
  GuardedCall("update_workflow", updateWorkflow(engine, store, input.call.args, TRUE),
              reconstructWorkflow(LiteOfArgs(input.call.args, engine["w1"][1].name, input.call.args.nodes,
                                             input.call.args.flow), engine["w1"]))

GuardedUpdateNodes ==
  GuardedCall("update_nodes", updateNodes(engine, store, input.call.args, TRUE),
              ApplyOperations([nodes |-> engine["w1"][1].nodes, connections |-> engine["w1"][1].connections,
                               results |-> <<>>, error |-> Null], input.call.args.operations))

InitGuard ==
  /\ input \in GuardInputs
  /\ engine = [w \in WfIds |-> IF w = "w1" THEN Some(input.workflow) ELSE Null]
  /\ store = EmptyStore
  /\ approval = [enabled |-> FALSE, pending |-> EmptyObj]
  /\ auditLog = <<>>
  /\ now = 0
  /\ last = NoCall
  /\ ncalls = 0
  /\ faulty = FALSE
  /\ output = Null

NextGuard == GuardedCreate \/ GuardedUpdateWorkflow \/ GuardedUpdateNodes

SpecGuard == InitGuard /\ [][NextGuard]_vars

\* the requests that write a workflow
WriteRequests == {i \in 1..Len(last.requests) : last.requests[i].method \in {"POST", "PUT"}}

\* the handler reached preflight: no operation threw
ReachedPreflight ==
  output # Null /\ (output[1].fn = "update_nodes" => output[1].virtual.error = Null)

\* C26: every workflow create_workflow, update_nodes or update_workflow (with
\* nodes and flow) sends has pairwise distinct node names and a connection
\* map whose source keys and targets are nodes of it, enabled or disabled; a
\* virtual state that breaks either condition is answered with preflight
\* errors and is not sent
C26_OnlySoundWorkflowsSent ==
  output # Null =>
    /\ \A i \in WriteRequests :
         WellFormed(last.requests[i].body.nodes, last.requests[i].body.connections)
    /\ (ReachedPreflight /\ ~WellFormed(output[1].virtual.nodes, output[1].virtual.connections)) =>
         /\ last.result.kind = "blocked"
         /\ last.result.errors # <<>>
         /\ WriteRequests = {}

\* create_workflow with the name B used twice, once by a disabled node, and
\* a sound flow: blocked with errors, nothing sent
C26_Witness ==
  /\ output # Null
  /\ output[1].fn = "create_workflow"
  /\ Len(input.call.args.nodes) = 3 /\ input.call.args.nodes[3].disabled
  /\ input.call.args.flow = <<LiteConn("A", "B")>>
  /\ last.result.kind = "blocked"
  /\ last.result.errors # <<>>
  /\ WriteRequests = {}

\* ---------------------------------------------------------------------------
\* rollback_workflow on a damaged store: index entries without a data file,
\* data files that do not parse, identities the index does not hold
\* ---------------------------------------------------------------------------

MaxStored == 2

StoredMeta(id) == [id |-> id, workflowId |-> "w1", workflowName |-> "W1", trigger |-> "manual"]

\* the index lists the identities of listed, newest first
RECURSIVE StoredIndex(_, _)
StoredIndex(id, listed) ==
  IF id = 0 THEN <<>>
  ELSE (IF id \in listed THEN <<StoredMeta(id)>> ELSE <<>>) \o StoredIndex(id - 1, listed)

\* per identity the data file is absent, holds a workflow or does not parse
StoredFiles ==
  UNION {[present -> {InitialWorkflow, Unparsable}] : present \in SUBSET (1..MaxStored)}

DamagedStores ==
  {[index |-> [w \in WfIds |-> IF w = "w1" THEN StoredIndex(MaxStored, listed) ELSE <<>>],
    files |-> [w \in WfIds |-> IF w = "w1" THEN files ELSE EmptyObj],
    nextId |-> MaxStored + 1] : listed \in SUBSET (1..MaxStored), files \in StoredFiles}

RollbackCalls ==
  {[workflowId |-> w, snapshotId |-> i] : w \in WfIds, i \in 1..(MaxStored + 1)}
    \cup {[workflowId |-> "w1"], [snapshotId |-> 1]}

RollbackInputs ==
  {[store |-> st, present |-> p, args |-> a] : st \in DamagedStores, p \in BOOLEAN, a \in RollbackCalls}

RollbackOnce ==
  /\ last = NoCall
  /\ Handle("rollback_workflow", input.args, 0, TRUE, rollbackWorkflow(engine, store, input.args, TRUE))

InitRollback ==
  /\ input \in RollbackInputs
  /\ engine = [w \in WfIds |-> IF w = "w1" /\ input.present THEN Some(InitialWorkflow) ELSE Null]
  /\ store = input.store
  /\ approval = [enabled |-> FALSE, pending |-> EmptyObj]
  /\ auditLog = <<>>
  /\ now = 0
  /\ last = NoCall
  /\ ncalls = 0
  /\ faulty = FALSE
  /\ output = Null

NextRollback == RollbackOnce

SpecRollback == InitRollback /\ [][NextRollback]_vars

RolledBack == last.tool = "rollback_workflow" /\ {"workflowId", "snapshotId"} \subseteq DOMAIN input.args

NotListed ==
  \A i \in 1..Len(input.store.index[input.args.workflowId]) :
     input.store.index[input.args.workflowId][i].id # input.args.snapshotId

DataMissing == input.args.snapshotId \notin DOMAIN input.store.files[input.args.workflowId]

DataUnparsable ==
  ~DataMissing /\ input.store.files[input.args.workflowId][input.args.snapshotId] = Unparsable

\* C27: a rollback to a snapshot that the index does not hold, or whose data
\* file is missing or does not parse, returns an error naming the snapshot,
\* sends nothing to the engine and saves no safety snapshot
C27_UnreadableSnapshotNoEffect ==
  (RolledBack /\ (NotListed \/ DataMissing \/ DataUnparsable)) =>
    /\ last.result.kind = "error"
    /\ "names" \in DOMAIN last.result
    /\ last.result.names[1] = input.args.snapshotId
    /\ last.requests = <<>>
    /\ last.saved = Null
    /\ store = input.store
    /\ engine["w1"] = IF input.present THEN Some(InitialWorkflow) ELSE Null

\* the index lists snapshot 1, its data file is there and does not parse
C27_Witness ==
  /\ RolledBack
  /\ ~NotListed /\ DataUnparsable
  /\ input.present
  /\ last.result.kind = "error"
  /\ last.requests = <<>>

\* ---------------------------------------------------------------------------
\* saveSnapshot and pruneSnapshots file operation by file operation
\*   output  the call in progress: where it stands, the identity it writes
\*           and the snapshots still to unlink; Null between calls
\*   ncalls  the calls started, input the interruptions so far
\*   an interruption ends the call where it stands; the files stay
\* ---------------------------------------------------------------------------

MaxStepSaves == 22
MaxInterrupts == 2

\* writeFileSync(dataPath, JSON.stringify(raw))
StepWriteData(st, workflowId, id, raw) ==
  [st EXCEPT !.files[workflowId] = ObjSet(@, id, raw), !.nextId = id + 1]

\* index.snapshots.unshift(snapshot); writeIndex
StepWriteIndex(st, workflowId, snapshot) == [st EXCEPT !.index[workflowId] = <<snapshot>> \o @]

StepPruneIndexLate(st, workflowId, keepCount) == st

\* index.snapshots = index.snapshots.slice(0, keepCount); writeIndex
StepPruneIndex(st, workflowId, keepCount) ==
  [st EXCEPT !.index[workflowId] = KeepNewest(@, keepCount)]

\* existsSync(dataPath) and unlinkSync(dataPath)
StepUnlink(st, workflowId, id) ==
  [st EXCEPT !.files[workflowId] = [k \in DOMAIN @ \ {id} |-> @[k]]]

InCall(at) == output # Null /\ output[1].at = at

WriteData ==
  /\ output = Null
  /\ ncalls < MaxStepSaves
  /\ store' = StepWriteData(store, "w1", store.nextId, InitialWorkflow)
  /\ output' = Some([fn |-> "saveSnapshot", at |-> "dataWritten", id |-> store.nextId, toRemove |-> <<>>])
  /\ ncalls' = ncalls + 1
  /\ UNCHANGED <<engine, approval, auditLog, now, last, faulty, input>>

WriteIndex ==
  /\ InCall("dataWritten")
  /\ store' = StepWriteIndex(store, "w1", [id |-> output[1].id, workflowId |-> "w1",
                                           workflowName |-> InitialWorkflow.name, trigger |-> "manual"])
  /\ output' = Some([output[1] EXCEPT !.at = "indexWritten"])
  /\ UNCHANGED <<engine, approval, auditLog, now, last, ncalls, faulty, input>>

\* pruneSnapshots up to its writeIndex; it returns at once when the index
\* is short enough
PruneIndex ==
  /\ InCall("indexWritten")
  /\ LET snapshots == readIndex(store, "w1") IN
     IF Len(snapshots) <= DEFAULT_MAX_SNAPSHOTS
     THEN /\ output' = Null
          /\ UNCHANGED store
     ELSE /\ store' = StepPruneIndex(store, "w1", DEFAULT_MAX_SNAPSHOTS)
          /\ output' = Some([output[1] EXCEPT !.at = "pruning",
                                              !.toRemove = SubSeq(snapshots, DEFAULT_MAX_SNAPSHOTS + 1,
                                                                  Len(snapshots))])
  /\ UNCHANGED <<engine, approval, auditLog, now, last, ncalls, faulty, input>>

\* one turn of the loop over toRemove; the call returns after the last
Unlink ==
  /\ InCall("pruning")
  /\ IF output[1].toRemove = <<>>
     THEN /\ output' = Null
          /\ UNCHANGED store
     ELSE /\ store' = StepUnlink(store, "w1", Head(output[1].toRemove).id)
          /\ output' = Some([output[1] EXCEPT !.toRemove = Tail(@)])
  /\ UNCHANGED <<engine, approval, auditLog, now, last, ncalls, faulty, input>>

Interrupt ==
  /\ output # Null
  /\ input < MaxInterrupts
  /\ input' = input + 1
  /\ output' = Null
  /\ UNCHANGED <<engine, store, approval, auditLog, now, last, ncalls, faulty>>

InitSteps ==
  /\ engine = [w \in WfIds |-> IF w = "w1" THEN Some(InitialWorkflow) ELSE Null]
  /\ store = EmptyStore
  /\ approval = [enabled |-> FALSE, pending |-> EmptyObj]
  /\ auditLog = <<>>
  /\ now = 0
  /\ last = NoCall
  /\ ncalls = 0
  /\ faulty = FALSE
  /\ input = 0
  /\ output = Null

NextSteps == WriteData \/ WriteIndex \/ PruneIndex \/ Unlink \/ Interrupt

SpecSteps == InitSteps /\ [][NextSteps]_vars

ListedHaveData(st) ==
  \A w \in WfIds : \A i \in 1..Len(st.index[w]) : st.index[w][i].id \in DOMAIN st.files[w]

\* C28: between any two file operations of saveSnapshot and pruneSnapshots,
\* and after an interruption at any of them, every snapshot identity the
\* index lists has its data file
C28_ListedSnapshotsHaveData == ListedHaveData(store)

\* pruning stands between the rewritten index and the unlink of the dropped
\* file, after an earlier call was interrupted
C28_Witness ==
  /\ InCall("pruning")
  /\ output[1].toRemove # <<>>
  /\ Head(output[1].toRemove).id \in DOMAIN store.files["w1"]
  /\ input > 0
  /\ Len(store.index["w1"]) = DEFAULT_MAX_SNAPSHOTS

\* ---------------------------------------------------------------------------
\* rollback_workflow on a full store: the safety snapshot and the pruning it
\* causes, for targets at both ends of the index
\* ---------------------------------------------------------------------------

MaxRollbacks == 2
MaxShort == 1

NamedWorkflow(name) == [InitialWorkflow EXCEPT !.name = name]

\* the store after count saves, the first of them of the workflow named oldest
RECURSIVE FilledStore(_, _)
FilledStore(count, oldest) ==
  IF count = 0 THEN EmptyStore
  ELSE saveSnapshot(FilledStore(count - 1, oldest), "w1",
                    IF count = 1 THEN NamedWorkflow(oldest) ELSE InitialWorkflow, "manual").store

FullInputs ==
  {[count |-> c, oldest |-> o, current |-> cur] :
     c \in (DEFAULT_MAX_SNAPSHOTS - MaxShort)..DEFAULT_MAX_SNAPSHOTS,
     o \in {"W1", "Old", "Older"},
     cur \in {Null, Some(InitialWorkflow), Some(NamedWorkflow("Now"))}}

\* the oldest and the newest listed snapshot, the one before the oldest, and
\* an identity not handed out yet
RollbackTargets(st) ==
  LET snapshots == readIndex(st, "w1") IN
  {snapshots[i].id : i \in {1, Len(snapshots) - 1, Len(snapshots)}} \cup {st.nextId}

RollbackTo ==
  /\ ncalls < MaxRollbacks
  /\ \E snapshotId \in RollbackTargets(store), snapshotOk \in BOOLEAN :
       LET args == [workflowId |-> "w1", snapshotId |-> snapshotId] IN
       /\ Executed("rollback_workflow", args, approval, TRUE,
                   rollbackWorkflow(engine, store, args, snapshotOk))
       /\ output' = Some([before |-> store, snapshotId |-> snapshotId])
  /\ ncalls' = ncalls + 1
  /\ UNCHANGED <<now, faulty, input>>

InitFull ==
  /\ input \in FullInputs
  /\ engine = [w \in WfIds |-> IF w = "w1" THEN input.current ELSE Null]
  /\ store = FilledStore(input.count, input.oldest)
  /\ approval = [enabled |-> FALSE, pending |-> EmptyObj]
  /\ auditLog = <<>>
  /\ now = 0
  /\ last = NoCall
  /\ ncalls = 0
  /\ faulty = FALSE
  /\ output = Null

NextFull == RollbackTo

SpecFull == InitFull /\ [][NextFull]_vars

\* the last call targeted the oldest of twenty snapshots and saved its safety snapshot
OldestOfTwenty ==
  /\ output # Null
  /\ Len(output[1].before.index["w1"]) = DEFAULT_MAX_SNAPSHOTS
  /\ output[1].before.index["w1"][DEFAULT_MAX_SNAPSHOTS].id = output[1].snapshotId
  /\ last.saved # Null

RestoreSent(data) ==
  /\ last.requests # <<>>
  /\ last.requests[Len(last.requests)].method = "PUT"
  /\ last.requests[Len(last.requests)].body = RestorePayload(data)

HasUnknownOp ==
  /\ input.tool = "update_nodes"
  /\ "operations" \in DOMAIN input.args
  /\ input.args.operations.t = "array"
  /\ \A i \in 1..Len(input.args.operations.items) :
       /\ input.args.operations.items[i].t = "object"
       /\ "op" \in DOMAIN input.args.operations.items[i].fields
       /\ input.args.operations.items[i].fields.op.t = "string"
  /\ \E i \in 1..Len(input.args.operations.items) :
       input.args.operations.items[i].fields.op.s \notin OperationNames

RECURSIVE KnownOnly(_)
KnownOnly(operations) ==
  IF operations = <<>> THEN <<>>
  ELSE (IF Head(operations).op \in OperationNames THEN <<Head(operations)>> ELSE <<>>)
       \o KnownOnly(Tail(operations))

RECURSIVE CountUnknown(_)
CountUnknown(results) ==
  IF results = <<>> THEN 0
  ELSE (IF Head(results) = "Unknown operation" THEN 1 ELSE 0) + CountUnknown(Tail(results))

PutBodies(call) == {call.requests[i].body : i \in {j \in 1..Len(call.requests) : call.requests[j].method = "PUT"}}

\* what a batch with an unknown operation has to come to, given the
\* outcome wk of applying its known operations alone to the workflow
UnknownSkipped(call, eng, operations, wk, preflight) ==
  /\ call.requests # <<>>
  /\ call.requests[1].method = "GET"
  /\ IF wk.error # Null
     THEN call.result.kind = "error" /\ PutBodies(call) = {}
     ELSE /\ CountUnknown(call.result.operations) >= 1
          /\ Len(call.result.operations) = Len(operations)
          /\ IF MaySend(preflight)
             THEN /\ call.result.kind = "ok"
                  /\ \E body \in PutBodies(call) :
                       body.nodes = wk.nodes /\ body.connections = wk.connections
                  /\ eng["w1"][1].nodes = wk.nodes
                  /\ eng["w1"][1].connections = wk.connections
             ELSE call.result.kind = "blocked" /\ PutBodies(call) = {}

UnknownOpStep ==
  (ncalls' = ncalls + 1 /\ HasUnknownOp) =>
    LET operations == ReadArgs(input.args).operations
        Compared(wk) ==
          UnknownSkipped(last', engine', operations, wk,
                         runPreflight(buildVirtualState(wk.nodes, wk.connections), "update_nodes"))
    IN Compared(ApplyOperations([nodes |-> engine["w1"][1].nodes,
                                 connections |-> engine["w1"][1].connections,
                                 results |-> <<>>, error |-> Null], KnownOnly(operations)))

====
